---------------------------- MODULE Spec2Model ----------------------------
(***************************************************************************)
(* A model of the asyncapi_discovery tool: the event detector              *)
(* (src/event_detector.py), the document generators                        *)
(* (src/src/asyncapi_discovery/asynapi_generator.py, generator.py,         *)
(* src/catalog_manager.py), the catalog writers and the command-line       *)
(* pipeline of src/main.py.                                                *)
(*                                                                         *)
(* Python strings are sequences of one-character strings, so that the      *)
(* regular-expression scan, str.replace, str.split and string formatting   *)
(* are modelled by what they do to the characters.  A Python dict is a     *)
(* function whose domain is the set of its keys; dict.get is Get.          *)
(***************************************************************************)
EXTENDS Integers, Sequences, FiniteSets, TLC

VARIABLES
    pc,             \* position of the operation under study
    events,         \* an event list handed to an operation
    unique_events,  \* the list _deduplicate_events returns
    line_matches,   \* the lineMatches of one search result
    broker_type,    \* the broker category a query belongs to
    event_name,     \* the name _extract_event_name returns
    corpus,         \* the corpus accessor: what a search answers to each query
    repo,           \* the repository identifier handed to detect_events
    detected,       \* the outcome of detect_events
    permuted,       \* a permutation of the event list
    clock,          \* the clock the generation timestamp is read from
    spec_doc,       \* the outcome of generate_spec on the event list
    spec_doc_permuted, \* the outcome of generate_spec on the permutation
    yaml_doc,       \* the text generator.generate returns
    catalog_doc,    \* the outcome of CatalogManager._create_specification
    config_file,    \* the file at the --config path
    arg_repository, \* the --repository argument, if given
    config,         \* the dict load_config returns
    sourcegraph_client, \* the fields of the SourcegraphClient of main
    repositories,   \* the repositories main scans
    next_repo,      \* position of the loop of main in repositories
    specifications, \* CatalogManager.specifications, in insertion order
    requests,       \* the requests sent to the Sourcegraph API so far
    exit_code,      \* the exit code of the process, once it has exited
    output_dir,     \* whether the output directory has been made
    disk,           \* the files written under the output directory
    write_errors,   \* the paths whose write has failed
    next_doc,       \* position of the saving loop in the documents
    specs,          \* the list handed to save_catalog
    save_raised,    \* whether save_catalog has raised
    detected_again, \* the outcome of a second detect_events on the same accessor
    cli_entry,          \* how the discovery is entered: the command line, or run()
    repository_path, \* what the repository path names: nothing, a file, a directory
    tree,           \* the files under the repository path
    output_path,    \* the output path handed to run, if any
    discover_only,  \* the --discover-only flag
    scanned,        \* the files handed to _scan_file, in order
    scan_result,    \* the dict RepositoryScanner.scan returns
    spec_text,      \* the text run returns
    files_written,        \* the files run has written
    cli_exit,       \* the exit code of the command line, once it has exited
    patterns,       \* EventDetector.patterns of the detector called
    accessors,      \* what the corpus accessor answers, for each repository
    history         \* the calls made on the detector and the generator, with their results

dedupVars == <<events, unique_events>>
extractVars == <<line_matches, broker_type, event_name>>
detectVars == <<corpus, repo, detected>>
genVars == <<permuted, clock, spec_doc, spec_doc_permuted, yaml_doc, catalog_doc>>

mainVars == <<config_file, arg_repository, config, sourcegraph_client, repositories,
              next_repo, specifications, requests, exit_code>>
saveVars == <<output_dir, disk, write_errors, next_doc>>
catalogVars == <<specs, save_raised>>

callVars == <<patterns, accessors, history>>
repeatVars == <<detected_again, callVars>>
cliVars == <<cli_entry, repository_path, tree, output_path, discover_only, scanned, scan_result,
             spec_text, files_written, cli_exit>>

vars == <<pc, dedupVars, extractVars, detectVars, genVars, mainVars, saveVars, catalogVars,
          repeatVars, cliVars>>

\* The value of a variable an operation does not use.
Unused == "unused"

IdleDedup == events = Unused /\ unique_events = Unused
IdleExtract == line_matches = Unused /\ broker_type = Unused /\ event_name = Unused
IdleDetect == corpus = Unused /\ repo = Unused /\ detected = Unused
IdleMain ==
    /\ config_file = Unused /\ arg_repository = Unused /\ config = Unused
    /\ sourcegraph_client = Unused /\ repositories = Unused /\ next_repo = Unused
    /\ specifications = Unused /\ requests = Unused /\ exit_code = Unused
IdleSave ==
    /\ output_dir = Unused /\ disk = Unused /\ write_errors = Unused /\ next_doc = Unused
IdleCatalog == specs = Unused /\ save_raised = Unused
IdleCalls == patterns = Unused /\ accessors = Unused /\ history = Unused
IdleRepeat == detected_again = Unused /\ IdleCalls
IdleCli ==
    /\ cli_entry = Unused /\ repository_path = Unused /\ tree = Unused /\ output_path = Unused
    /\ discover_only = Unused /\ scanned = Unused /\ scan_result = Unused
    /\ spec_text = Unused /\ files_written = Unused /\ cli_exit = Unused
IdleGen ==
    /\ permuted = Unused /\ clock = Unused /\ spec_doc = Unused
    /\ spec_doc_permuted = Unused /\ yaml_doc = Unused /\ catalog_doc = Unused

-----------------------------------------------------------------------------
(* Bounds of the model. *)

MaxEvents == 3      \* longest event list handed to _deduplicate_events
MaxSegs == 5        \* longest enumerated line, in segments
MaxLines == 2       \* most matched lines in a multi-line match

-----------------------------------------------------------------------------
(* Strings. *)

S_kafka == <<"k", "a", "f", "k", "a">>
S_rabbitmq == <<"r", "a", "b", "b", "i", "t", "m", "q">>
S_aws == <<"a", "w", "s">>
S_pubsub == <<"p", "u", "b", "s", "u", "b">>
S_azure == <<"a", "z", "u", "r", "e">>
S_generic == <<"g", "e", "n", "e", "r", "i", "c">>
S_event_suffix == <<"_", "e", "v", "e", "n", "t">>
S_user_created == <<"u", "s", "e", "r", ".", "c", "r", "e", "a", "t", "e", "d">>
S_order_placed == <<"o", "r", "d", "e", "r", ".", "p", "l", "a", "c", "e", "d">>
S_orders == <<"o", "r", "d", "e", "r", "s">>
S_payment_processed == <<"p", "a", "y", "m", "e", "n", "t", ".", "p", "r", "o", "c", "e", "s", "s", "e", "d">>
S_file_a == <<"a", ".", "p", "y">>
S_file_b == <<"b", ".", "p", "y">>
S_repo == <<"o", "r", "g", "/", "s", "h", "o", "p">>

\* The two matched lines of the scenario of section 8 of the specification.
Line_basic_publish == <<"c", "h", "a", "n", "n", "e", "l", ".", "b", "a", "s", "i", "c", "_", "p", "u", "b", "l", "i", "s", "h", "(", "e", "x", "c", "h", "a", "n", "g", "e", "=", "\"", "o", "r", "d", "e", "r", "s", "\"", ",", " ", "r", "o", "u", "t", "i", "n", "g", "_", "k", "e", "y", "=", "\"", "o", "r", "d", "e", "r", ".", "p", "l", "a", "c", "e", "d", "\"", ",", " ", ".", ".", ".", ")">>
Line_kafka_send == <<"k", "a", "f", "k", "a", "T", "e", "m", "p", "l", "a", "t", "e", ".", "s", "e", "n", "d", "(", "\"", "p", "a", "y", "m", "e", "n", "t", ".", "p", "r", "o", "c", "e", "s", "s", "e", "d", "\"", ",", " ", ".", ".", ".", ")">>

\* The characters of the class [a-zA-Z0-9._-] and the two quote characters
\* of the pattern of _extract_event_name.
NameChars ==
    { "a", "b", "c", "d", "e", "f", "g", "h", "i", "j", "k", "l", "m",
      "n", "o", "p", "q", "r", "s", "t", "u", "v", "w", "x", "y", "z",
      "A", "B", "C", "D", "E", "F", "G", "H", "I", "J", "K", "L", "M",
      "N", "O", "P", "Q", "R", "S", "T", "U", "V", "W", "X", "Y", "Z",
      "0", "1", "2", "3", "4", "5", "6", "7", "8", "9", ".", "_", "-" }

QuoteChars == { "\"", "'" }

-----------------------------------------------------------------------------
(* Python values. *)

\* dict.get(k, default)
Get(d, k, default) == IF k \in DOMAIN d THEN d[k] ELSE default

\* {} : the dict without keys
EmptyDict == [k \in {} |-> k]

\* A value that is no dict (None, a string, a number): calling .get on it
\* raises AttributeError.
NotAMapping == [nonmapping |-> TRUE]

IsMapping(x) == "nonmapping" \notin DOMAIN x

\* All sequences over S of length at most n.
SeqsUpTo(S, n) == UNION { [1..k -> S] : k \in 0..n }

Min(S) == CHOOSE x \in S : \A y \in S : x <= y

RECURSIVE Flatten(_)
Flatten(ss) == IF ss = <<>> THEN <<>> ELSE Head(ss) \o Flatten(Tail(ss))

-----------------------------------------------------------------------------
(* EventDetector._extract_event_name *)

\* re.findall(r'["\']([a-zA-Z0-9._-]+)["\']', line): the groups of the
\* leftmost non-overlapping matches, found scanning from position pos.  A
\* match can only start at a quote; it takes the whole run of NameChars
\* after it (at least one character) and needs a quote right after the run,
\* so it is the text between the quote at pos and the next quote of the
\* line, when that text is not empty and all of NameChars.  After a match
\* the scan goes on behind its closing quote, otherwise at the next
\* position.
RECURSIVE FindAllFrom(_, _)
FindAllFrom(line, pos) ==
    LET opening == { p \in pos..Len(line) : line[p] \in QuoteChars }
    IN  IF opening = {} THEN <<>>
        ELSE LET start == Min(opening)
                 closing == { p \in (start + 1)..Len(line) : line[p] \in QuoteChars }
             IN  IF closing = {} THEN <<>>
                 ELSE LET end == Min(closing)
                      IN  IF /\ end > start + 1
                             /\ \A p \in (start + 1)..(end - 1) : line[p] \in NameChars
                          THEN <<SubSeq(line, start + 1, end - 1)>> \o FindAllFrom(line, end + 1)
                          ELSE FindAllFrom(line, end)

FindAll(line) == FindAllFrom(line, 1)

\* "if len(s) > 2 and not s.startswith('_')"
Reasonable(s) == Len(s) > 2 /\ s[1] # "_"

\* The loop returning the last string that passes the test, not the first.
LastReasonable(strings, k) ==
    LET ok == { j \in k..Len(strings) : Reasonable(strings[j]) }
    IN  IF ok = {} THEN <<>> ELSE <<strings[CHOOSE j \in ok : \A h \in ok : h <= j]>>

\* "for s in strings: if ...: return s": <<s>> for the string returned,
\* <<>> when the loop ends without returning.
RECURSIVE FirstReasonable(_, _)
FirstReasonable(strings, k) ==
    IF k > Len(strings) THEN <<>>
    ELSE IF Reasonable(strings[k]) THEN <<strings[k]>>
    ELSE FirstReasonable(strings, k + 1)

RECURSIVE ExtractFrom(_, _, _)
ExtractFrom(lms, i, broker) ==
    IF i > Len(lms) THEN broker \o S_event_suffix
    ELSE LET line == Get(lms[i], "line", <<>>)
             found == FirstReasonable(FindAll(line), 1)
         IN  IF found # <<>> THEN found[1] ELSE ExtractFrom(lms, i + 1, broker)

ExtractEventNameFirstOfLineOnly(lms, broker) ==
    LET heads == [i \in 1..Len(lms) |->
                    LET strings == FindAll(Get(lms[i], "line", <<>>))
                    IN  IF strings # <<>> /\ Reasonable(strings[1])
                        THEN <<strings[1]>> ELSE <<>>]
        hit == { i \in 1..Len(lms) : heads[i] # <<>> }
    IN  IF hit = {} THEN broker \o S_event_suffix ELSE heads[Min(hit)][1]

ExtractEventName(lms, broker) == ExtractFrom(lms, 1, broker)

-----------------------------------------------------------------------------
(* EventDetector._deduplicate_events *)

RECURSIVE DedupFrom(_, _, _, _)
DedupFrom(evs, i, seen, unique) ==
    IF i > Len(evs) THEN unique
    ELSE LET key == <<evs[i].name, evs[i].broker>>
         IN  IF key \notin seen
             THEN DedupFrom(evs, i + 1, seen \cup {key}, Append(unique, evs[i]))
             ELSE DedupFrom(evs, i + 1, seen, unique)

RECURSIVE DedupByNameFrom(_, _, _, _)
DedupByNameFrom(evs, i, seen, unique) ==
    IF i > Len(evs) THEN unique
    ELSE IF evs[i].name \notin seen
         THEN DedupByNameFrom(evs, i + 1, seen \cup {evs[i].name}, Append(unique, evs[i]))
         ELSE DedupByNameFrom(evs, i + 1, seen, unique)

DeduplicateByNameOnly(evs) == DedupByNameFrom(evs, 1, {}, <<>>)

\* The variant that puts each new record in front of the ones already kept.
RECURSIVE DedupPrependingFrom(_, _, _, _)
DedupPrependingFrom(evs, i, seen, unique) ==
    IF i > Len(evs) THEN unique
    ELSE LET key == <<evs[i].name, evs[i].broker>>
         IN  IF key \notin seen
             THEN DedupPrependingFrom(evs, i + 1, seen \cup {key}, <<evs[i]>> \o unique)
             ELSE DedupPrependingFrom(evs, i + 1, seen, unique)

DeduplicatePrepending(evs) == DedupPrependingFrom(evs, 1, {}, <<>>)

DeduplicateEvents(evs) == DedupFrom(evs, 1, {}, <<>>)

-----------------------------------------------------------------------------
(* The deduplication step on its own: every list of raw event records. *)

RawEvents ==
    [ name : {S_user_created, S_order_placed},
      broker : {S_kafka, S_generic},
      file : {S_file_a, S_file_b} ]

InitDedup ==
    /\ pc = "start"
    /\ events \in SeqsUpTo(RawEvents, MaxEvents)
    /\ unique_events = <<>>
    /\ IdleExtract
    /\ IdleDetect
    /\ IdleGen
    /\ IdleMain
    /\ IdleSave
    /\ IdleCatalog
    /\ IdleRepeat
    /\ IdleCli

Deduplicate ==
    /\ pc = "start"
    /\ unique_events' = DeduplicateEvents(events)
    /\ pc' = "done"
    /\ UNCHANGED <<events, extractVars, repeatVars, cliVars, detectVars, genVars, mainVars, saveVars, catalogVars>>

NextDedup == Deduplicate

SpecDedup == InitDedup /\ [][NextDedup]_vars

Key(e) == <<e.name, e.broker>>

\* The position of the first record of evs that carries the key k.
FirstIndex(evs, k) == Min({ i \in 1..Len(evs) : Key(evs[i]) = k })

\* C1: the deduplication step returns exactly one record per distinct
\* (name, broker) pair of its input, namely the first record seen with that
\* pair; the kept records are in the order of their first occurrence; two
\* records with the same name and different brokers are both kept.
C1_DedupFirstSeenPerKey ==
    pc = "done" =>
        LET keys == { Key(events[i]) : i \in 1..Len(events) }
        IN  /\ Len(unique_events) = Cardinality(keys)
            /\ \A k \in keys :
                 \E i \in 1..Len(unique_events) :
                    /\ unique_events[i] = events[FirstIndex(events, k)]
                    /\ \A j \in 1..Len(unique_events) :
                         Key(unique_events[j]) = k => j = i
            /\ \A i, j \in 1..Len(unique_events) :
                 i < j => FirstIndex(events, Key(unique_events[i]))
                            < FirstIndex(events, Key(unique_events[j]))
            /\ \A i, j \in 1..Len(events) :
                 (events[i].name = events[j].name /\ events[i].broker # events[j].broker)
                    => \E a, b \in 1..Len(unique_events) :
                          /\ a # b
                          /\ Key(unique_events[a]) = Key(events[i])
                          /\ Key(unique_events[b]) = Key(events[j])

\* A list in which a pair occurs twice, with different records, and a name
\* occurs under two brokers, has been deduplicated.
C1_Witness ==
    /\ pc = "done"
    /\ Len(events) = 3
    /\ Key(events[1]) = Key(events[3])
    /\ events[1] # events[3]
    /\ events[1].name = events[2].name
    /\ events[1].broker # events[2].broker
    /\ unique_events = <<events[1], events[2]>>

-----------------------------------------------------------------------------
(* _extract_event_name on its own: every match and broker tag. *)

\* Pieces of text the enumerated lines are built from: the two quotes, a
\* name of two characters, a name of three, a name that starts with an
\* underscore, and a character outside [a-zA-Z0-9._-].
Segments == { <<"\"">>, <<"'">>, <<"a", "b">>, <<"t", "o", "p">>, <<"_", "i", "d">>, <<" ">> }

EnumLines == { Flatten(ss) : ss \in SeqsUpTo(Segments, MaxSegs) }

Line_short_literal == <<"x", " ", "=", " ", "\"", "i", "d", "\"">>
Line_private_first == <<"e", "m", "i", "t", "(", "'", "_", "p", "r", "i", "v", "a", "t", "e", "'", ",", " ", "\"", "a", "-", "b", ".", "c", "\"", ")">>
Line_no_literal == <<"p", "r", "o", "d", "u", "c", "e", "r", ".", "f", "l", "u", "s", "h", "(", ")">>

SampleLines ==
    { Line_basic_publish, Line_kafka_send, Line_short_literal,
      Line_private_first, Line_no_literal }

\* A line match of a search result; the last one lacks its text.
SampleLineMatches ==
    { [lineNumber |-> 42, line |-> l] : l \in SampleLines } \cup { [lineNumber |-> 7] }

ExtractInputs ==
    { <<[lineNumber |-> 1, line |-> l]>> : l \in EnumLines }
        \cup SeqsUpTo(SampleLineMatches, MaxLines)

InitExtract ==
    /\ pc = "start"
    /\ line_matches \in ExtractInputs
    /\ broker_type \in {S_kafka, S_generic}
    /\ event_name = <<>>
    /\ IdleDedup
    /\ IdleDetect
    /\ IdleGen
    /\ IdleMain
    /\ IdleSave
    /\ IdleCatalog
    /\ IdleRepeat
    /\ IdleCli

Extract ==
    /\ pc = "start"
    /\ event_name' = ExtractEventName(line_matches, broker_type)
    /\ pc' = "done"
    /\ UNCHANGED <<line_matches, broker_type, dedupVars, repeatVars, cliVars, detectVars, genVars, mainVars, saveVars, catalogVars>>

NextExtract == Extract

SpecExtract == InitExtract /\ [][NextExtract]_vars

\* The quoted literals of a line, by position: <<i, j>> when a quote stands
\* at i and at j and one or more characters of [a-zA-Z0-9._-], and nothing
\* else, stand between them.
LiteralSpans(line) ==
    { s \in (1..Len(line)) \X (1..Len(line)) :
        /\ s[1] + 1 < s[2]
        /\ line[s[1]] \in QuoteChars
        /\ line[s[2]] \in QuoteChars
        /\ \A p \in (s[1] + 1)..(s[2] - 1) : line[p] \in NameChars }

\* The literals a left-to-right scan reads: no two of them share a quote
\* character, and a literal is passed over only when its opening quote
\* closes a literal read before it.
ScannedSpans(line) ==
    CHOOSE T \in SUBSET LiteralSpans(line) :
        /\ \A s, t \in T : s # t => (s[2] < t[1] \/ t[2] < s[1])
        /\ \A s \in LiteralSpans(line) \ T : \E t \in T : t[1] < s[1] /\ s[1] <= t[2]

Text(line, s) == SubSeq(line, s[1] + 1, s[2] - 1)

Qualifies(text) == Len(text) > 2 /\ Head(text) # "_"

\* The positions <<line index, start, end>> of the qualifying literals of a
\* match, and the order in which a scan of the match meets them.
QualifyingAt(lms) ==
    UNION { { <<i, s[1], s[2]>> :
                s \in { u \in ScannedSpans(Get(lms[i], "line", <<>>)) :
                          Qualifies(Text(Get(lms[i], "line", <<>>), u)) } } :
            i \in 1..Len(lms) }

Before(a, b) == a[1] < b[1] \/ (a[1] = b[1] /\ a[2] <= b[2])

\* C2: the extracted event name is the first quoted literal, scanning the
\* matched lines in encounter order and each line left to right, that is
\* made of characters of [a-zA-Z0-9._-], is longer than 2 characters and
\* does not start with an underscore; with no such literal in any matched
\* line the name is "<broker>_event".
C2_FirstQualifyingLiteral ==
    pc = "done" =>
        LET q == QualifyingAt(line_matches)
        IN  IF q = {}
            THEN event_name = broker_type \o S_event_suffix
            ELSE LET first == CHOOSE a \in q : \A b \in q : Before(a, b)
                 IN  event_name =
                        Text(line_matches[first[1]].line, <<first[2], first[3]>>)

\* A match of two lines whose first line holds only a literal that is too
\* short: the name comes from the second line.
C2_Witness ==
    /\ pc = "done"
    /\ Len(line_matches) = 2
    /\ Get(line_matches[1], "line", <<>>) = Line_short_literal
    /\ Get(line_matches[2], "line", <<>>) = Line_private_first
    /\ event_name = <<"a", "-", "b", ".", "c">>
-----------------------------------------------------------------------------
(* The Pattern Library: EventDetector.*_PATTERNS and _compile_patterns.  The
   dict of _compile_patterns keeps its insertion order. *)

KAFKA_PATTERNS ==
    << <<"K", "a", "f", "k", "a", "P", "r", "o", "d", "u", "c", "e", "r">>, <<"\\", ".", "s", "e", "n", "d", "\\", "s", "*", "\\", "(">>, <<"k", "a", "f", "k", "a", "\\", ".", "P", "r", "o", "d", "u", "c", "e", "r">>, <<"@", "K", "a", "f", "k", "a", "L", "i", "s", "t", "e", "n", "e", "r">> >>

RABBITMQ_PATTERNS ==
    << <<"c", "h", "a", "n", "n", "e", "l", "\\", ".", "b", "a", "s", "i", "c", "_", "p", "u", "b", "l", "i", "s", "h">>, <<"R", "a", "b", "b", "i", "t", "T", "e", "m", "p", "l", "a", "t", "e">>, <<"@", "R", "a", "b", "b", "i", "t", "L", "i", "s", "t", "e", "n", "e", "r">>,
       <<"p", "i", "k", "a", "\\", ".", "B", "l", "o", "c", "k", "i", "n", "g", "C", "o", "n", "n", "e", "c", "t", "i", "o", "n">> >>

AWS_PATTERNS ==
    << <<"s", "n", "s", "\\", ".", "p", "u", "b", "l", "i", "s", "h">>, <<"s", "q", "s", "\\", ".", "s", "e", "n", "d", "_", "m", "e", "s", "s", "a", "g", "e">>, <<"b", "o", "t", "o", "3", "\\", ".", "c", "l", "i", "e", "n", "t", "\\", "(", "[", "\"", "\\", "'", "]", "s", "n", "s", "[", "\"", "\\", "'", "]">>,
       <<"b", "o", "t", "o", "3", "\\", ".", "c", "l", "i", "e", "n", "t", "\\", "(", "[", "\"", "\\", "'", "]", "s", "q", "s", "[", "\"", "\\", "'", "]">> >>

PUBSUB_PATTERNS ==
    << <<"p", "u", "b", "l", "i", "s", "h", "e", "r", "\\", ".", "p", "u", "b", "l", "i", "s", "h">>, <<"g", "o", "o", "g", "l", "e", "\\", ".", "c", "l", "o", "u", "d", "\\", ".", "p", "u", "b", "s", "u", "b">>, <<"P", "u", "b", "l", "i", "s", "h", "e", "r", "C", "l", "i", "e", "n", "t">> >>

AZURE_PATTERNS ==
    << <<"S", "e", "r", "v", "i", "c", "e", "B", "u", "s", "C", "l", "i", "e", "n", "t">>, <<"s", "e", "n", "d", "_", "m", "e", "s", "s", "a", "g", "e", "s">>, <<"a", "z", "u", "r", "e", "\\", ".", "s", "e", "r", "v", "i", "c", "e", "b", "u", "s">> >>

GENERIC_EVENT_PATTERNS ==
    << <<"\\", ".", "e", "m", "i", "t", "\\", "s", "*", "\\", "(">>, <<"\\", ".", "p", "u", "b", "l", "i", "s", "h", "\\", "s", "*", "\\", "(">>, <<"\\", ".", "f", "i", "r", "e", "\\", "s", "*", "\\", "(">>, <<"E", "v", "e", "n", "t", "E", "m", "i", "t", "t", "e", "r">>,
       <<"\\", ".", "t", "r", "i", "g", "g", "e", "r", "\\", "s", "*", "\\", "(">> >>

CompilePatterns ==
    << [broker_type |-> S_kafka, patterns |-> KAFKA_PATTERNS],
       [broker_type |-> S_rabbitmq, patterns |-> RABBITMQ_PATTERNS],
       [broker_type |-> S_aws, patterns |-> AWS_PATTERNS],
       [broker_type |-> S_pubsub, patterns |-> PUBSUB_PATTERNS],
       [broker_type |-> S_azure, patterns |-> AZURE_PATTERNS],
       [broker_type |-> S_generic, patterns |-> GENERIC_EVENT_PATTERNS] >>

\* The (broker, pattern) pairs in the order the two loops of detect_events
\* visit them.
LibraryPairs ==
    Flatten([ b \in 1..Len(CompilePatterns) |->
                [ p \in 1..Len(CompilePatterns[b].patterns) |->
                    [ broker_type |-> CompilePatterns[b].broker_type,
                      query |-> CompilePatterns[b].patterns[p] ] ] ])

Searches == 1..Len(LibraryPairs)

-----------------------------------------------------------------------------
(* EventDetector._parse_event *)

\* None is <<>> and an event e is <<e>>.  Every exception raised in the try
\* block (a .get on a value that is no dict, in _parse_event itself, in
\* _extract_event_name or in the two list comprehensions) is caught and
\* gives None.
ParseEventBody(match, broker) ==
    IF ~IsMapping(match) THEN <<>>
    ELSE IF ~IsMapping(Get(match, "file", EmptyDict)) THEN <<>>
    ELSE IF ~IsMapping(Get(match, "repository", EmptyDict)) THEN <<>>
    ELSE LET lms == Get(match, "lineMatches", <<>>)
         IN  IF lms = <<>> THEN <<>>
             ELSE IF \E i \in 1..Len(lms) : ~IsMapping(lms[i]) THEN <<>>
             ELSE << [ name |-> ExtractEventName(lms, broker),
                       broker |-> broker,
                       file |-> Get(Get(match, "file", EmptyDict), "path", <<>>),
                       repository |-> Get(Get(match, "repository", EmptyDict), "name", <<>>),
                       lines |-> [ i \in 1..Len(lms) |-> Get(lms[i], "lineNumber", 0) ],
                       source_code |-> [ i \in 1..Len(lms) |-> Get(lms[i], "line", <<>>) ] ] >>

\* _parse_event with the try block left out of the shape checks that the
\* defaults of .get make unnecessary: a match lacking a key is dropped.
ParseEventStrict(match, broker) ==
    IF ~IsMapping(match) THEN <<>>
    ELSE IF {"file", "repository", "lineMatches"} \ DOMAIN match # {} THEN <<>>
    ELSE ParseEventBody(match, broker)

\* _parse_event without the test "if not line_matches": a match without
\* matched lines gives a record with the default name.
ParseEventKeepingLineless(match, broker) ==
    IF IsMapping(match) /\ IsMapping(Get(match, "file", EmptyDict))
          /\ IsMapping(Get(match, "repository", EmptyDict))
          /\ Get(match, "lineMatches", <<>>) = <<>>
    THEN << [ name |-> broker \o S_event_suffix,
              broker |-> broker,
              file |-> Get(Get(match, "file", EmptyDict), "path", <<>>),
              repository |-> Get(Get(match, "repository", EmptyDict), "name", <<>>),
              lines |-> <<>>,
              source_code |-> <<>> ] >>
    ELSE ParseEventBody(match, broker)

\* _parse_event collecting in source_code the text of the lines that have
\* one, instead of '' for a line without text.
ParseEventDroppingTextlessLines(match, broker) ==
    LET parsed == ParseEventBody(match, broker)
    IN  IF parsed = <<>> THEN <<>>
        ELSE LET lms == match.lineMatches
                 texts == SelectSeq(lms, LAMBDA lm : "line" \in DOMAIN lm)
             IN  << [ parsed[1] EXCEPT !.source_code = [ i \in 1..Len(texts) |-> texts[i].line ] ] >>

ParseEvent(match, broker) == ParseEventBody(match, broker)

\* "for result in results: event = self._parse_event(...); if event: append"
RECURSIVE ParseResults(_, _)
ParseResults(results, broker) ==
    IF results = <<>> THEN <<>>
    ELSE ParseEvent(Head(results), broker) \o ParseResults(Tail(results), broker)

-----------------------------------------------------------------------------
(* EventDetector.detect_events *)

\* What a call of search_code(query, repo) on the accessor gives: a list of
\* results, or an exception.  An accessor is the sequence of its answers to
\* the searches of one scan: accessor[i] answers the i-th search, whose
\* query is LibraryPairs[i].query.
Returned(results) == [raised |-> FALSE, results |-> results]
Raised == [raised |-> TRUE, results |-> <<>>]

\* The two loops from pair i on, with the events appended and the calls made
\* so far.  An exception of search_code leaves detect_events at once.
RECURSIVE DetectFrom(_, _, _, _, _)
DetectFrom(accessor, repository, i, acc, calls) ==
    IF i > Len(LibraryPairs)
    THEN [raised |-> FALSE, events |-> DeduplicateEvents(acc), calls |-> calls]
    ELSE LET pair == LibraryPairs[i]
             answer == accessor[i]
             called == Append(calls, [query |-> pair.query, repo |-> repository])
         IN  IF answer.raised
             THEN [raised |-> TRUE, events |-> <<>>, calls |-> called]
             ELSE DetectFrom(accessor, repository, i + 1,
                             acc \o ParseResults(answer.results, pair.broker_type),
                             called)

DetectEvents(repository, accessor) == DetectFrom(accessor, repository, 1, <<>>, <<>>)
-----------------------------------------------------------------------------
(* detect_events against a corpus accessor. *)

MaxHits == 2        \* most queries of a scan that have results

S_order_service_py == <<"s", "r", "c", "/", "s", "e", "r", "v", "i", "c", "e", "s", "/", "o", "r", "d", "e", "r", "_", "s", "e", "r", "v", "i", "c", "e", ".", "p", "y">>
S_EventPublisher_java == <<"s", "r", "c", "/", "m", "a", "i", "n", "/", "j", "a", "v", "a", "/", "E", "v", "e", "n", "t", "P", "u", "b", "l", "i", "s", "h", "e", "r", ".", "j", "a", "v", "a">>
Line_user_created == <<"p", "r", "o", "d", "u", "c", "e", "r", ".", "s", "e", "n", "d", "(", "\"", "u", "s", "e", "r", ".", "c", "r", "e", "a", "t", "e", "d", "\"", ",", " ", "u", "s", "e", "r", "E", "v", "e", "n", "t", ")", ";">>

\* The two matches of the scenario of section 8 of the specification.
Match_basic_publish ==
    [ file |-> [path |-> S_order_service_py],
      repository |-> [name |-> S_repo],
      lineMatches |-> << [lineNumber |-> 78, line |-> Line_basic_publish] >> ]

Match_kafka_send ==
    [ file |-> [path |-> S_EventPublisher_java],
      repository |-> [name |-> S_repo],
      lineMatches |-> << [lineNumber |-> 45, line |-> Line_kafka_send] >> ]

\* A well-formed match of two lines.
Match_user_created ==
    [ file |-> [path |-> S_EventPublisher_java],
      repository |-> [name |-> S_repo],
      lineMatches |-> << [lineNumber |-> 41, line |-> Line_no_literal],
                         [lineNumber |-> 42, line |-> Line_user_created] >> ]

\* A match without file and repository, whose line has no number.
Match_missing_fields ==
    [ lineMatches |-> << [line |-> Line_private_first] >> ]

\* A match whose line has no text.
Match_no_text ==
    [ file |-> [path |-> S_order_service_py],
      repository |-> [name |-> S_repo],
      lineMatches |-> << [lineNumber |-> 7] >> ]

\* Matches without matched lines: the key absent, and the list empty.
Match_no_lines ==
    [ file |-> [path |-> S_order_service_py], repository |-> [name |-> S_repo] ]

Match_empty_lines ==
    [ file |-> [path |-> S_order_service_py],
      repository |-> [name |-> S_repo],
      lineMatches |-> <<>> ]

\* Matches that are no mapping where one is expected: the file is null,
\* a line match is null.
Match_file_null ==
    [ file |-> NotAMapping,
      repository |-> [name |-> S_repo],
      lineMatches |-> << [lineNumber |-> 42, line |-> Line_user_created] >> ]

Match_line_null ==
    [ file |-> [path |-> S_order_service_py],
      repository |-> [name |-> S_repo],
      lineMatches |-> << [lineNumber |-> 42, line |-> Line_kafka_send], NotAMapping >> ]

\* The result lists a query may be answered with.
SampleResults ==
    { << Match_basic_publish >>,
      << Match_kafka_send >>,
      << NotAMapping, Match_missing_fields, Match_no_lines, Match_user_created,
         Match_file_null, Match_no_text, Match_line_null, Match_empty_lines >> }

RECURSIVE SubsetsUpTo(_, _)
SubsetsUpTo(S, k) ==
    IF k = 0 THEN {{}}
    ELSE LET P == SubsetsUpTo(S, k - 1)
         IN  P \cup { p \cup {x} : p \in P, x \in S }

\* The accessor that answers the searches of H as g says and every other
\* search with the empty list.
Accessor(H, g) == [ i \in Searches |-> IF i \in H THEN Returned(g[i]) ELSE Returned(<<>>) ]

NoOutcome == [raised |-> FALSE, events |-> <<>>, calls |-> <<>>]

InitDetect ==
    /\ pc = "start"
    /\ \E H \in SubsetsUpTo(Searches, MaxHits) :
         \E g \in [H -> SampleResults] : corpus = Accessor(H, g)
    /\ repo = S_repo
    /\ detected = NoOutcome
    /\ IdleDedup
    /\ IdleExtract
    /\ IdleGen
    /\ IdleMain
    /\ IdleSave
    /\ IdleCatalog
    /\ IdleRepeat
    /\ IdleCli

Detect ==
    /\ pc = "start"
    /\ detected' = DetectEvents(repo, corpus)
    /\ pc' = "done"
    /\ UNCHANGED <<corpus, repo, dedupVars, repeatVars, cliVars, extractVars, genVars, mainVars, saveVars, catalogVars>>

NextDetect == Detect

SpecDetect == InitDetect /\ [][NextDetect]_vars

\* The searches of a scan answered with the result list rs.
SearchesAnswering(rs) == { i \in Searches : corpus[i].results = rs }

\* The accessor of the scenario: one search of the rabbitmq category finds
\* the basic_publish line, one of the kafka category the kafkaTemplate.send
\* line, and no other search finds anything.
IsScenario ==
    LET hits == { i \in Searches : corpus[i].results # <<>> }
    IN  \E i, j \in hits :
            /\ hits = {i, j}
            /\ LibraryPairs[i].broker_type = S_rabbitmq
            /\ LibraryPairs[j].broker_type = S_kafka
            /\ corpus[i] = Returned(<<Match_basic_publish>>)
            /\ corpus[j] = Returned(<<Match_kafka_send>>)

NameAndBroker(e) == [name |-> e.name, broker |-> e.broker]

DetectedPairs == { NameAndBroker(detected.events[k]) : k \in 1..Len(detected.events) }

\* C3 as stated: on the scenario detect returns exactly the two records
\* {order.placed, rabbitmq} and {payment.processed, kafka}.
C3_AsClaimed ==
    (pc = "done" /\ IsScenario) =>
        /\ ~detected.raised
        /\ Len(detected.events) = 2
        /\ DetectedPairs = { [name |-> S_order_placed, broker |-> S_rabbitmq],
                             [name |-> S_payment_processed, broker |-> S_kafka] }

\* C3, amended: on the scenario detect returns exactly two records,
\* {orders, rabbitmq} and {payment.processed, kafka}: "orders" is the first
\* qualifying literal of the basic_publish line.
C3_ScenarioRecords ==
    (pc = "done" /\ IsScenario) =>
        /\ ~detected.raised
        /\ Len(detected.events) = 2
        /\ DetectedPairs = { [name |-> S_orders, broker |-> S_rabbitmq],
                             [name |-> S_payment_processed, broker |-> S_kafka] }

C3_Witness ==
    /\ pc = "done"
    /\ IsScenario
    /\ Len(detected.events) = 2
    /\ detected.events[2].source_code = <<Line_basic_publish>>

\* The matches of a scan, each with the broker tag of its search:
\* <<i, k>> is the k-th result of the i-th search.
MatchesOfScan ==
    UNION { { <<i, k>> : k \in 1..Len(corpus[i].results) } : i \in Searches }

MatchAt(ik) == corpus[ik[1]].results[ik[2]]
BrokerAt(ik) == LibraryPairs[ik[1]].broker_type

\* A match with every expected field: file path, repository name, and at
\* least one line match, each with its number and its text.
WellFormed(m) ==
    /\ IsMapping(m)
    /\ {"file", "repository", "lineMatches"} \subseteq DOMAIN m
    /\ IsMapping(m.file) /\ "path" \in DOMAIN m.file
    /\ IsMapping(m.repository) /\ "name" \in DOMAIN m.repository
    /\ m.lineMatches # <<>>
    /\ \A l \in 1..Len(m.lineMatches) :
         IsMapping(m.lineMatches[l]) /\ {"lineNumber", "line"} \subseteq DOMAIN m.lineMatches[l]

\* A match that has a value which is no mapping where a mapping is expected.
Misshapen(m) ==
    \/ ~IsMapping(m)
    \/ "file" \in DOMAIN m /\ ~IsMapping(m.file)
    \/ "repository" \in DOMAIN m /\ ~IsMapping(m.repository)
    \/ "lineMatches" \in DOMAIN m /\ \E l \in 1..Len(m.lineMatches) : ~IsMapping(m.lineMatches[l])

\* A match without matched lines.
Lineless(m) == IsMapping(m) /\ ("lineMatches" \notin DOMAIN m \/ m.lineMatches = <<>>)

\* The record e is the one built from match m under the tag broker, with ''
\* and 0 for the values m lacks.
BuiltFrom(e, m, broker) ==
    /\ e.broker = broker
    /\ e.file = (IF "file" \in DOMAIN m /\ "path" \in DOMAIN m.file THEN m.file.path ELSE <<>>)
    /\ e.repository = (IF "repository" \in DOMAIN m /\ "name" \in DOMAIN m.repository
                       THEN m.repository.name ELSE <<>>)
    /\ Len(e.lines) = Len(m.lineMatches)
    /\ Len(e.source_code) = Len(m.lineMatches)
    /\ \A l \in 1..Len(m.lineMatches) :
         /\ e.lines[l] = (IF "lineNumber" \in DOMAIN m.lineMatches[l]
                          THEN m.lineMatches[l].lineNumber ELSE 0)
         /\ e.source_code[l] = (IF "line" \in DOMAIN m.lineMatches[l]
                                THEN m.lineMatches[l].line ELSE <<>>)
    /\ e.name = ExtractEventName(m.lineMatches, broker)

\* C6 as stated: every match that lacks an expected field or is no mapping
\* is skipped, so every record returned is built from a well-formed match;
\* the scan is not aborted and the name and broker of every well-formed
\* match are among the records returned.
C6_AsClaimed ==
    pc = "done" =>
        /\ ~detected.raised
        /\ \A k \in 1..Len(detected.events) :
             \E ik \in MatchesOfScan :
                /\ WellFormed(MatchAt(ik))
                /\ BuiltFrom(detected.events[k], MatchAt(ik), BrokerAt(ik))
        /\ \A ik \in MatchesOfScan :
             WellFormed(MatchAt(ik)) =>
                LET name == ExtractEventName(MatchAt(ik).lineMatches, BrokerAt(ik))
                IN  \E k \in 1..Len(detected.events) :
                        /\ detected.events[k].broker = BrokerAt(ik)
                        /\ detected.events[k].name = name

\* C6, amended: a match is skipped when it, its file, its repository or one
\* of its line matches is no mapping, or when it has no matched lines; a
\* match that only lacks the file path, the repository name, a line number
\* or a line text is not skipped but yields a record with '' or 0 in place
\* of the missing value.  The scan is never aborted, every record returned
\* is built from a match that is not skipped, and the name and broker of
\* every match that is not skipped are among the records returned.
C6_MisshapenSkippedOthersKept ==
    pc = "done" =>
        /\ ~detected.raised
        /\ \A k \in 1..Len(detected.events) :
             \E ik \in MatchesOfScan :
                /\ ~Misshapen(MatchAt(ik)) /\ ~Lineless(MatchAt(ik))
                /\ BuiltFrom(detected.events[k], MatchAt(ik), BrokerAt(ik))
        /\ \A ik \in MatchesOfScan :
             (~Misshapen(MatchAt(ik)) /\ ~Lineless(MatchAt(ik))) =>
                LET name == ExtractEventName(MatchAt(ik).lineMatches, BrokerAt(ik))
                IN  \E k \in 1..Len(detected.events) :
                        /\ detected.events[k].broker = BrokerAt(ik)
                        /\ detected.events[k].name = name

\* A scan one of whose searches returns, among well-formed matches, values
\* that are no mapping, matches without lines and a match without file and
\* repository: the record of the match without file is returned, with '' as
\* its file, and so are the records of the other matches that are not
\* skipped.
C6_Witness ==
    /\ pc = "done"
    /\ \E i \in Searches :
          /\ corpus[i].results =
                << NotAMapping, Match_missing_fields, Match_no_lines, Match_user_created,
                   Match_file_null, Match_no_text, Match_line_null, Match_empty_lines >>
          /\ \E k \in 1..Len(detected.events) :
                /\ detected.events[k].broker = LibraryPairs[i].broker_type
                /\ detected.events[k].file = <<>>
                /\ detected.events[k].lines = <<0>>
    /\ Len(detected.events) = 3
-----------------------------------------------------------------------------
(* AsyncAPIGenerator of asynapi_generator.py (AsyncAPI 3.0).  An event is a
   dict; the keys read are channel_name, broker, channel_type, operation,
   message_type, repository, file_path and line_number.  A document section
   that is a dict keyed by computed strings is a function on those strings.
   Fixed literals that the code never takes apart ("amqp", "object") are
   plain strings.  The description, title and summary texts of servers,
   channels, operations, messages and schemas are left out. *)

S_unknown == <<"u", "n", "k", "n", "o", "w", "n">>
S_Unknown == <<"U", "n", "k", "n", "o", "w", "n">>
S_send == <<"s", "e", "n", "d">>
S_receive == <<"r", "e", "c", "e", "i", "v", "e">>
S_topic == <<"t", "o", "p", "i", "c">>
S_default == <<"d", "e", "f", "a", "u", "l", "t">>
S_aws_prefix == <<"a", "w", "s", "-">>
S_aws_sns == <<"a", "w", "s", "-", "s", "n", "s">>
S_aws_sqs == <<"a", "w", "s", "-", "s", "q", "s">>
S_aws_eventbridge == <<"a", "w", "s", "-", "e", "v", "e", "n", "t", "b", "r", "i", "d", "g", "e">>
S_ibm_mq == <<"i", "b", "m", "-", "m", "q">>
S_message_infix == <<"_", "m", "e", "s", "s", "a", "g", "e", "_">>
S_payload_suffix == <<"_", "p", "a", "y", "l", "o", "a", "d">>
S_ref_messages == <<"#", "/", "c", "o", "m", "p", "o", "n", "e", "n", "t", "s", "/", "m", "e", "s", "s", "a", "g", "e", "s", "/">>
S_ref_schemas == <<"#", "/", "c", "o", "m", "p", "o", "n", "e", "n", "t", "s", "/", "s", "c", "h", "e", "m", "a", "s", "/">>
S_ref_channels == <<"#", "/", "c", "h", "a", "n", "n", "e", "l", "s", "/">>
S_ref_channel_messages == <<"/", "m", "e", "s", "s", "a", "g", "e", "s", "/">>
S_Event_API == <<" ", "E", "v", "e", "n", "t", " ", "A", "P", "I">>
S_underscore == <<"_">>

Digits == << "0", "1", "2", "3", "4", "5", "6", "7", "8", "9" >>

\* str(n) of a natural number, as an f-string formats it.
RECURSIVE IntToStr(_)
IntToStr(n) ==
    IF n < 10 THEN << Digits[n + 1] >>
    ELSE IntToStr(n \div 10) \o << Digits[(n % 10) + 1] >>

\* d[k] = v
Put(d, k, v) == (k :> v) @@ d

\* The distinct values of a sequence, in the order of their first
\* occurrence: the keys of a dict filled in a loop over the sequence.
RECURSIVE KeysInOrder(_)
KeysInOrder(s) ==
    IF s = <<>> THEN <<>>
    ELSE LET front == KeysInOrder(SubSeq(s, 1, Len(s) - 1))
             last == s[Len(s)]
         IN  IF \E i \in 1..Len(front) : front[i] = last THEN front ELSE Append(front, last)

\* [e for e in events if P(e)], P given as the set of the events it admits
Filter(evs, admitted) == SelectSeq(evs, LAMBDA e : e \in admitted)

ChannelNameOf(e) == Get(e, "channel_name", S_unknown)
BrokerOf(e) == Get(e, "broker", S_unknown)

\* AsyncAPIGenerator._sanitize_channel_id
SanitizeChannelId(channel_name) ==
    [ i \in 1..Len(channel_name) |->
        IF channel_name[i] \in {"/", ".", ":"} THEN "_" ELSE channel_name[i] ]

\* _sanitize_channel_id replacing the dot alone.
SanitizeDotsOnly(channel_name) ==
    [ i \in 1..Len(channel_name) |->
        IF channel_name[i] = "." THEN "_" ELSE channel_name[i] ]

MessageId(channel_id, idx) == channel_id \o S_message_infix \o IntToStr(idx)

\* AsyncAPIGenerator._get_protocol
GetProtocol(broker) ==
    CASE broker = S_kafka -> "kafka"
      [] broker = S_rabbitmq -> "amqp"
      [] broker = S_aws_sns -> "sns"
      [] broker = S_aws_sqs -> "sqs"
      [] broker = S_aws_eventbridge -> "eventbridge"
      [] broker = S_ibm_mq -> "ibmmq"
      [] OTHER -> "unknown"

\* _get_protocol giving the broker tag of a broker it maps.
GetProtocolIdentity(broker) ==
    CASE broker = S_kafka -> "kafka"
      [] broker = S_rabbitmq -> "rabbitmq"
      [] OTHER -> "unknown"

StartsWith(s, prefix) ==
    Len(s) >= Len(prefix) /\ SubSeq(s, 1, Len(prefix)) = prefix

\* AsyncAPIGenerator._get_server_config
GetServerConfig(broker, evs) ==
    LET server_config == [ host |-> "{environment}.example.com",
                    protocol |-> GetProtocol(broker),
                    variables |-> [environment |->
                                     [default |-> "dev", enum |-> <<"dev", "staging", "prod">>]] ]
    IN  IF broker = S_kafka
        THEN Put(server_config, "bindings",
                 [kafka |-> [schemaRegistryUrl |-> "https://schema-registry.example.com"]])
        ELSE IF broker = S_rabbitmq
        THEN Put(server_config, "bindings", [amqp |-> [exchange |-> "default"]])
        ELSE IF StartsWith(broker, S_aws_prefix)
        THEN Put(server_config, "bindings", [aws |-> [region |-> "us-east-1"]])
        ELSE server_config

\* AsyncAPIGenerator._generate_servers
GenerateServers(evs) ==
    LET brokers == { BrokerOf(evs[i]) : i \in 1..Len(evs) }
    IN  [ b \in brokers |->
            GetServerConfig(b, Filter(evs, { evs[i] : i \in { j \in 1..Len(evs) : BrokerOf(evs[j]) = b } })) ]

\* channel_name.split('/')
RECURSIVE Split(_, _)
Split(s, sep) ==
    LET at == { i \in 1..Len(s) : s[i] = sep }
    IN  IF at = {} THEN << s >>
        ELSE << SubSeq(s, 1, Min(at) - 1) >> \o Split(SubSeq(s, Min(at) + 1, Len(s)), sep)

\* AsyncAPIGenerator._create_channel
CreateChannel(channel_name, evs) ==
    LET first_event == evs[1]
        broker == BrokerOf(first_event)
        channel_type == Get(first_event, "channel_type", S_topic)
        ids == { MessageId(SanitizeChannelId(channel_name), idx) : idx \in 0..(Len(evs) - 1) }
        channel == [ address |-> channel_name,
                     messages |-> [ id \in ids |-> [ref |-> S_ref_messages \o id] ] ]
        parts == Split(channel_name, "/")
    IN  IF broker = S_kafka
        THEN Put(channel, "bindings",
                 [kafka |-> [topic |-> channel_name, partitions |-> 3, replicas |-> 2]])
        ELSE IF broker = S_rabbitmq
        THEN Put(channel, "bindings",
                 [amqp |-> [ is |-> channel_type,
                             exchange |-> [ name |-> IF Len(parts) > 1 THEN parts[1] ELSE S_default,
                                            type |-> "topic" ],
                             queue |-> [ name |-> IF Len(parts) > 1 THEN parts[2]
                                                  ELSE channel_name ] ]])
        ELSE channel

\* The second loop of _generate_channels, from group i on: a later group
\* whose sanitized name is already a key replaces the entry.
RECURSIVE ChannelsFrom(_, _, _, _)
ChannelsFrom(evs, names, i, channels) ==
    IF i > Len(names) THEN channels
    ELSE LET group == Filter(evs, { evs[j] : j \in { h \in 1..Len(evs) :
                                                       ChannelNameOf(evs[h]) = names[i] } })
         IN  ChannelsFrom(evs, names, i + 1,
                          Put(channels, SanitizeChannelId(names[i]),
                              CreateChannel(names[i], group)))

\* _generate_channels filing a channel "unknown" when no event names one.
GenerateChannelsDefaultGroup(evs) ==
    IF evs = <<>>
    THEN Put(EmptyDict, S_unknown, [address |-> S_unknown, messages |-> EmptyDict])
    ELSE ChannelsFrom(evs, KeysInOrder([ i \in 1..Len(evs) |-> ChannelNameOf(evs[i]) ]),
                      1, EmptyDict)

\* AsyncAPIGenerator._generate_channels
GenerateChannels(evs) ==
    ChannelsFrom(evs, KeysInOrder([ i \in 1..Len(evs) |-> ChannelNameOf(evs[i]) ]), 1, EmptyDict)

\* AsyncAPIGenerator._generate_operations: one entry of channel_operations
\* per channel id, holding the channel name and the operation of the first
\* event with that id and the number of events with it.
RECURSIVE OperationsFrom(_, _, _, _)
OperationsFrom(evs, ids, i, operations) ==
    IF i > Len(ids) THEN operations
    ELSE LET with == { h \in 1..Len(evs) : SanitizeChannelId(ChannelNameOf(evs[h])) = ids[i] }
             first == evs[Min(with)]
             operation == Get(first, "operation", S_send)
             operation_id == operation \o S_underscore \o ids[i]
         IN  OperationsFrom(evs, ids, i + 1,
                 Put(operations, operation_id,
                     [ action |-> operation,
                       channel |-> [ref |-> S_ref_channels \o ids[i]],
                       messages |-> [ idx \in 1..Cardinality(with) |->
                                        [ref |-> S_ref_channels \o ids[i] \o S_ref_channel_messages
                                                   \o MessageId(ids[i], idx - 1)] ] ]))

GenerateOperations(evs) ==
    OperationsFrom(evs,
                   KeysInOrder([ i \in 1..Len(evs) |-> SanitizeChannelId(ChannelNameOf(evs[i])) ]),
                   1, EmptyDict)

\* AsyncAPIGenerator._create_schema
CreateSchema(event) ==
    [ type |-> "object",
      title |-> Get(event, "message_type", S_Unknown),
      properties |->
        [ eventId |-> [type |-> "string", format |-> "uuid"],
          timestamp |-> [type |-> "string", format |-> "date-time"],
          eventType |-> [type |-> "string", const |-> Get(event, "message_type", S_Unknown)],
          payload |-> [type |-> "object", additionalProperties |-> TRUE] ],
      required |-> <<"eventId", "timestamp", "eventType">> ]

\* The events of the list whose channel_name key holds channel_name:
\* "[e for e in events if e.get('channel_name') == channel_name]".  An event
\* without the key is not among them, whatever channel_name is.
SameChannel(evs, channel_name) ==
    SelectSeq(evs, LAMBDA e : "channel_name" \in DOMAIN e /\ e.channel_name = channel_name)

\* list.index(x): the first position holding a value equal to x, counted
\* from 0; -1 stands for the ValueError raised when there is none.
IndexOf(s, x) ==
    LET at == { i \in 1..Len(s) : s[i] = x }
    IN  IF at = {} THEN -1 ELSE Min(at) - 1

\* The loop of _generate_components from event i on.
RECURSIVE ComponentsFrom(_, _, _, _)
ComponentsFrom(evs, i, messages, schemas) ==
    IF i > Len(evs) THEN [raised |-> FALSE, messages |-> messages, schemas |-> schemas]
    ELSE LET event == evs[i]
             channel_name == ChannelNameOf(event)
             channel_id == SanitizeChannelId(channel_name)
             message_type == Get(event, "message_type", S_Unknown)
             event_idx == IndexOf(SameChannel(evs, channel_name), event)
             message_id == MessageId(channel_id, event_idx)
             schema_id == message_id \o S_payload_suffix
         IN  IF event_idx < 0
             THEN [raised |-> TRUE, messages |-> messages, schemas |-> schemas]
             ELSE ComponentsFrom(evs, i + 1,
                     Put(messages, message_id,
                         [ name |-> message_type,
                           contentType |-> "application/json",
                           payload |-> [ref |-> S_ref_schemas \o schema_id],
                           x_source |-> [ repository |-> Get(event, "repository", <<>>),
                                          filePath |-> Get(event, "file_path", <<>>),
                                          lineNumber |-> Get(event, "line_number", 0) ] ]),
                     Put(schemas, schema_id, CreateSchema(event)))

\* AsyncAPIGenerator._generate_components
GenerateComponents(evs) == ComponentsFrom(evs, 1, EmptyDict, EmptyDict)

\* AsyncAPIGenerator._generate_info.  now is the clock reading and repos the
\* list that list(set(...)) makes of the repositories of the events.
GenerateInfo(service_name, evs, version, now, repos) ==
    [ title |-> service_name \o S_Event_API,
      version |-> version,
      description |-> << "Asynchronous event API for ", service_name,
                         ". This specification was auto-generated from code analysis." >>,
      x_generated |-> [ timestamp |-> now, eventCount |-> Len(evs), repositories |-> repos ] ]

\* The lists list(set(e.get('repository', '') for e in events)) may be: the
\* distinct repositories, in any order.
RepositoryLists(evs) ==
    LET reps == { Get(evs[i], "repository", <<>>) : i \in 1..Len(evs) }
    IN  { s \in [1..Cardinality(reps) -> reps] : { s[i] : i \in 1..Len(s) } = reps }

NoDocument == [raised |-> FALSE, spec |-> EmptyDict]
Failure == [raised |-> TRUE, spec |-> EmptyDict]

\* AsyncAPIGenerator.generate_spec; the exception of _generate_components
\* leaves generate_spec.
GenerateSpec(service_name, evs, version, now, repos) ==
    LET components == GenerateComponents(evs)
    IN  IF components.raised THEN Failure
        ELSE [ raised |-> FALSE,
               spec |-> [ asyncapi |-> "3.0.0",
                          info |-> GenerateInfo(service_name, evs, version, now, repos),
                          servers |-> GenerateServers(evs),
                          channels |-> GenerateChannels(evs),
                          operations |-> GenerateOperations(evs),
                          components |-> [ messages |-> components.messages,
                                           schemas |-> components.schemas ] ] ]
-----------------------------------------------------------------------------
(* AsyncAPIGenerator.generate of generator.py (AsyncAPI 2.6.0).  The text
   it returns is yaml.dump(spec, default_flow_style=False, sort_keys=False):
   one line per key, in insertion order, nested by indentation, an empty
   mapping written "{}".  The text is the sequence of its lines, a line
   being its nesting depth, its key and the scalar after the colon (empty
   when a nested mapping follows); the quoting of scalars is left out. *)

L(indent, key, value) == [indent |-> indent, key |-> key, value |-> value]

Y_channels == <<"c", "h", "a", "n", "n", "e", "l", "s">>
Y_servers == <<"s", "e", "r", "v", "e", "r", "s">>
Y_protocol == <<"p", "r", "o", "t", "o", "c", "o", "l">>
Y_empty_mapping == <<"{", "}">>
S_Unknown_Event == <<"U", "n", "k", "n", "o", "w", "n", " ", "E", "v", "e", "n", "t">>

\* yaml.dump of _create_base_spec()
BaseSpecLines ==
    << L(0, <<"a", "s", "y", "n", "c", "a", "p", "i">>, <<"2", ".", "6", ".", "0">>),
       L(0, <<"i", "n", "f", "o">>, <<>>),
       L(1, <<"t", "i", "t", "l", "e">>, <<"D", "i", "s", "c", "o", "v", "e", "r", "e", "d", " ", "A", "s", "y", "n", "c", "A", "P", "I", " ", "S", "p", "e", "c", "i", "f", "i", "c", "a", "t", "i", "o", "n">>),
       L(1, <<"v", "e", "r", "s", "i", "o", "n">>, <<"1", ".", "0", ".", "0">>),
       L(1, <<"d", "e", "s", "c", "r", "i", "p", "t", "i", "o", "n">>, <<"A", "u", "t", "o", "-", "g", "e", "n", "e", "r", "a", "t", "e", "d", " ", "A", "s", "y", "n", "c", "A", "P", "I", " ", "s", "p", "e", "c", "i", "f", "i", "c", "a", "t", "i", "o", "n", " ", "f", "r", "o", "m", " ", "r", "e", "p", "o", "s", "i", "t", "o", "r", "y", " ", "s", "c", "a", "n", "n", "i", "n", "g">>),
       L(0, Y_servers, <<>>),
       L(1, <<"d", "e", "v", "e", "l", "o", "p", "m", "e", "n", "t">>, <<>>),
       L(2, <<"u", "r", "l">>, <<"l", "o", "c", "a", "l", "h", "o", "s", "t">>),
       L(2, Y_protocol, <<"a", "m", "q", "p">>),
       L(2, <<"d", "e", "s", "c", "r", "i", "p", "t", "i", "o", "n">>, <<"D", "e", "v", "e", "l", "o", "p", "m", "e", "n", "t", " ", "s", "e", "r", "v", "e", "r">>) >>

\* yaml.dump of channels[channel_name] = _create_channel(event)
ChannelLines(channel_name, event) ==
    << L(1, channel_name, <<>>),
       L(2, <<"d", "e", "s", "c", "r", "i", "p", "t", "i", "o", "n">>, <<"C", "h", "a", "n", "n", "e", "l", " ", "f", "o", "r", " ">> \o Get(event, "name", S_unknown) \o <<" ", "e", "v", "e", "n", "t">>),
       L(2, <<"s", "u", "b", "s", "c", "r", "i", "b", "e">>, <<>>),
       L(3, <<"s", "u", "m", "m", "a", "r", "y">>, <<"S", "u", "b", "s", "c", "r", "i", "b", "e", " ", "t", "o", " ">> \o Get(event, "name", S_unknown) \o <<" ", "e", "v", "e", "n", "t", "s">>),
       L(3, <<"m", "e", "s", "s", "a", "g", "e">>, <<>>),
       L(4, <<"n", "a", "m", "e">>, Get(event, "name", S_unknown)),
       L(4, <<"t", "i", "t", "l", "e">>, Get(event, "name", S_Unknown_Event)),
       L(4, <<"c", "o", "n", "t", "e", "n", "t", "T", "y", "p", "e">>, <<"a", "p", "p", "l", "i", "c", "a", "t", "i", "o", "n", "/", "j", "s", "o", "n">>),
       L(4, <<"p", "a", "y", "l", "o", "a", "d">>, <<>>),
       L(5, <<"t", "y", "p", "e">>, <<"o", "b", "j", "e", "c", "t">>),
       L(5, <<"p", "r", "o", "p", "e", "r", "t", "i", "e", "s">>, <<>>),
       L(6, <<"e", "v", "e", "n", "t", "I", "d">>, <<>>),
       L(7, <<"t", "y", "p", "e">>, <<"s", "t", "r", "i", "n", "g">>),
       L(7, <<"d", "e", "s", "c", "r", "i", "p", "t", "i", "o", "n">>, <<"U", "n", "i", "q", "u", "e", " ", "e", "v", "e", "n", "t", " ", "i", "d", "e", "n", "t", "i", "f", "i", "e", "r">>),
       L(6, <<"t", "i", "m", "e", "s", "t", "a", "m", "p">>, <<>>),
       L(7, <<"t", "y", "p", "e">>, <<"s", "t", "r", "i", "n", "g">>),
       L(7, <<"f", "o", "r", "m", "a", "t">>, <<"d", "a", "t", "e", "-", "t", "i", "m", "e">>),
       L(7, <<"d", "e", "s", "c", "r", "i", "p", "t", "i", "o", "n">>, <<"E", "v", "e", "n", "t", " ", "t", "i", "m", "e", "s", "t", "a", "m", "p">>),
       L(6, <<"d", "a", "t", "a">>, <<>>),
       L(7, <<"t", "y", "p", "e">>, <<"o", "b", "j", "e", "c", "t">>),
       L(7, <<"d", "e", "s", "c", "r", "i", "p", "t", "i", "o", "n">>, <<"E", "v", "e", "n", "t", " ", "p", "a", "y", "l", "o", "a", "d", " ", "d", "a", "t", "a">>) >>

\* The variant that stores a channel for every event, so that the last
\* event with a name makes its channel.
GenerateLastWins(producers) ==
    LET evs == Get(producers, "events", <<>>)
        nameOf == [ i \in 1..Len(evs) |-> Get(evs[i], "name", S_unknown) ]
        names == KeysInOrder(nameOf)
        last(n) == evs[CHOOSE i \in 1..Len(evs) :
                          nameOf[i] = n /\ \A j \in 1..Len(evs) : nameOf[j] = n => j <= i]
    IN  BaseSpecLines \o
        ( IF names = <<>> THEN << L(0, Y_channels, Y_empty_mapping) >>
          ELSE << L(0, Y_channels, <<>>) >> \o
               Flatten([ i \in 1..Len(names) |-> ChannelLines(names[i], last(names[i])) ]) )

\* generator.AsyncAPIGenerator.generate: a channel per distinct name, in the
\* order of first occurrence, made from the first event with the name.
Generate(producers) ==
    LET evs == Get(producers, "events", <<>>)
        nameOf == [ i \in 1..Len(evs) |-> Get(evs[i], "name", S_unknown) ]
        names == KeysInOrder(nameOf)
        first(n) == evs[Min({ i \in 1..Len(evs) : nameOf[i] = n })]
    IN  BaseSpecLines \o
        ( IF names = <<>> THEN << L(0, Y_channels, Y_empty_mapping) >>
          ELSE << L(0, Y_channels, <<>>) >> \o
               Flatten([ i \in 1..Len(names) |-> ChannelLines(names[i], first(names[i])) ]) )

\* The top-level section of a dumped document under the given key: the
\* lines after the key's line up to the next line of depth 0.
Section(lines, key) ==
    LET at == { i \in 1..Len(lines) : lines[i].indent = 0 /\ lines[i].key = key }
    IN  IF at = {} THEN <<>>
        ELSE LET start == Min(at)
                 later == { i \in (start + 1)..Len(lines) : lines[i].indent = 0 }
                 stop == IF later = {} THEN Len(lines) + 1 ELSE Min(later)
             IN  SubSeq(lines, start + 1, stop - 1)

\* The keys of the entries of a section.
EntryKeys(section) ==
    { section[i].key : i \in { j \in 1..Len(section) : section[j].indent = 1 } }

-----------------------------------------------------------------------------
(* CatalogManager._create_specification of src/catalog_manager.py, which
   add_specification files under the repository. *)

S_server_suffix == <<"_", "s", "e", "r", "v", "e", "r">>
S_message_suffix == <<"_", "m", "e", "s", "s", "a", "g", "e">>
S_subscribe_prefix == <<"s", "u", "b", "s", "c", "r", "i", "b", "e", "_">>
S_localhost_url == <<":", "/", "/", "l", "o", "c", "a", "l", "h", "o", "s", "t">>

\* CatalogManager._group_events_by_broker: the brokers of the groups
BrokerGroups(evs) == { Get(evs[i], "broker", S_generic) : i \in 1..Len(evs) }

\* "repo.split('/')[-1] if '/' in repo else repo"
RepoName(repository) ==
    LET parts == Split(repository, "/") IN parts[Len(parts)]

\* The loop "for event in events" of _create_specification, from event i
\* on; event['name'] and event['file'] raise KeyError on an event without
\* the key.
RECURSIVE SpecificationFrom(_, _, _, _, _)
SpecificationFrom(evs, i, channels, messages, schemas) ==
    IF i > Len(evs)
    THEN [raised |-> FALSE, channels |-> channels, messages |-> messages, schemas |-> schemas]
    ELSE IF {"name", "file"} \ DOMAIN evs[i] # {}
    THEN [raised |-> TRUE, channels |-> channels, messages |-> messages, schemas |-> schemas]
    ELSE LET name == evs[i].name
             message_name == name \o S_message_suffix
             schema_name == name \o S_payload_suffix
         IN  SpecificationFrom(evs, i + 1,
                 Put(channels, name,
                     [subscribe |-> [ operationId |-> S_subscribe_prefix \o name,
                                      message |-> [ref |-> S_ref_messages \o message_name] ]]),
                 Put(messages, message_name,
                     [ name |-> name,
                       summary |-> << "Event produced from ", evs[i].file >>,
                       contentType |-> "application/json",
                       payload |-> [ref |-> S_ref_schemas \o schema_name] ]),
                 Put(schemas, schema_name,
                     [ type |-> "object",
                       properties |-> [ eventId |-> [type |-> "string"],
                                        timestamp |-> [type |-> "string", format |-> "date-time"],
                                        data |-> [type |-> "object"] ] ]))

CreateSpecification(repository, evs) ==
    LET brokers == BrokerGroups(evs)
        body == SpecificationFrom(evs, 1, EmptyDict, EmptyDict, EmptyDict)
    IN  IF body.raised THEN Failure
        ELSE [ raised |-> FALSE,
               spec |-> [ asyncapi |-> "2.6.0",
                          info |-> [ title |-> RepoName(repository) \o S_Event_API,
                                     version |-> "1.0.0",
                                     description |->
                                       << "AsyncAPI specification for event producers in ",
                                          repository >>,
                                     contact |-> [ name |-> "AsyncAPI Discovery Tool" ] ],
                          servers |-> [ n \in { b \o S_server_suffix : b \in brokers } |->
                                          LET b == CHOOSE b \in brokers : b \o S_server_suffix = n
                                          IN  [ url |-> b \o S_localhost_url, protocol |-> b ] ],
                          channels |-> body.channels,
                          components |-> [ messages |-> body.messages,
                                           schemas |-> body.schemas ] ] ]
-----------------------------------------------------------------------------
(* The generators applied to one event list and to a permutation of it. *)

MaxGenEvents == 3   \* longest event list handed to the generators

S_service == <<"o", "r", "d", "e", "r", "-", "s", "e", "r", "v", "i", "c", "e">>
S_orders_created == <<"o", "r", "d", "e", "r", "s", ".", "c", "r", "e", "a", "t", "e", "d">>
S_orders_created_id == <<"o", "r", "d", "e", "r", "s", "_", "c", "r", "e", "a", "t", "e", "d">>
S_OrderCreated == <<"O", "r", "d", "e", "r", "C", "r", "e", "a", "t", "e", "d">>
S_OrderAudit == <<"O", "r", "d", "e", "r", "A", "u", "d", "i", "t">>
S_repo_audit == <<"o", "r", "g", "/", "a", "u", "d", "i", "t">>
S_order_placed_id == <<"o", "r", "d", "e", "r", "_", "p", "l", "a", "c", "e", "d">>
S_payment_processed_id == <<"p", "a", "y", "m", "e", "n", "t", "_", "p", "r", "o", "c", "e", "s", "s", "e", "d">>

\* An event as the AsyncAPI 3.0 generator reads it, with the name and file
\* the other two generators read.
Ev_created ==
    [ channel_name |-> S_orders_created, name |-> S_orders_created, broker |-> S_kafka,
      operation |-> S_send, message_type |-> S_OrderCreated,
      repository |-> S_repo, file |-> S_file_a ]

\* Another event of the same channel: other broker, action and repository.
Ev_audit ==
    [ channel_name |-> S_orders_created, name |-> S_orders_created, broker |-> S_rabbitmq,
      operation |-> S_receive, message_type |-> S_OrderAudit,
      repository |-> S_repo_audit, file |-> S_file_b ]

\* An event of a channel whose name sanitizes to the id of the channel
\* above, with every optional key absent.
Ev_collide == [ channel_name |-> S_orders_created_id, broker |-> S_aws_sns ]

\* The two records of the detection scenario, in the shape _parse_event
\* gives a record, carrying the names "order.placed" and
\* "payment.processed".
Rec_order_placed ==
    [ ParseEvent(Match_basic_publish, S_rabbitmq)[1] EXCEPT !.name = S_order_placed ]
Rec_payment_processed == ParseEvent(Match_kafka_send, S_kafka)[1]

GenEvents == { Ev_created, Ev_audit, Ev_collide, Rec_order_placed, Rec_payment_processed }

AfterGenerateSpec == { "generated", "dumped", "filed", "permuted" }
AfterGenerate == { "dumped", "filed", "permuted" }
AfterCreateSpecification == { "filed", "permuted" }

InitGen ==
    /\ pc = "start"
    /\ events \in SeqsUpTo(GenEvents, MaxGenEvents)
    /\ permuted = <<>>
    /\ clock = 1
    /\ spec_doc = NoDocument
    /\ spec_doc_permuted = NoDocument
    /\ yaml_doc = <<>>
    /\ catalog_doc = NoDocument
    /\ unique_events = Unused
    /\ IdleExtract
    /\ IdleDetect
    /\ IdleMain
    /\ IdleSave
    /\ IdleCatalog
    /\ IdleRepeat
    /\ IdleCli

\* generate_spec(service_name, events, version="1.0.0")
CallGenerateSpec ==
    /\ pc = "start"
    /\ \E repos \in RepositoryLists(events) :
           spec_doc' = GenerateSpec(S_service, events, "1.0.0", clock, repos)
    /\ clock' = clock + 1
    /\ pc' = "generated"
    /\ UNCHANGED <<dedupVars, repeatVars, cliVars, extractVars, detectVars, mainVars, saveVars, catalogVars,
                   permuted, spec_doc_permuted, yaml_doc, catalog_doc>>

\* generator.AsyncAPIGenerator().generate({'events': events})
CallGenerate ==
    /\ pc = "generated"
    /\ yaml_doc' = Generate([events |-> events])
    /\ pc' = "dumped"
    /\ UNCHANGED <<dedupVars, repeatVars, cliVars, extractVars, detectVars, mainVars, saveVars, catalogVars,
                   permuted, clock, spec_doc, spec_doc_permuted, catalog_doc>>

\* CatalogManager.add_specification(repo, events), as far as the document
CallCreateSpecification ==
    /\ pc = "dumped"
    /\ catalog_doc' = CreateSpecification(S_repo, events)
    /\ pc' = "filed"
    /\ UNCHANGED <<dedupVars, repeatVars, cliVars, extractVars, detectVars, mainVars, saveVars, catalogVars,
                   permuted, clock, spec_doc, spec_doc_permuted, yaml_doc>>

\* generate_spec on a permutation of the list
CallGenerateSpecPermuted ==
    /\ pc = "filed"
    /\ \E p \in Permutations(1..Len(events)) :
         LET shuffled == [ i \in 1..Len(events) |-> events[p[i]] ]
         IN  /\ permuted' = shuffled
             /\ \E repos \in RepositoryLists(shuffled) :
                    spec_doc_permuted' = GenerateSpec(S_service, shuffled, "1.0.0", clock, repos)
    /\ clock' = clock + 1
    /\ pc' = "permuted"
    /\ UNCHANGED <<dedupVars, repeatVars, cliVars, extractVars, detectVars, mainVars, saveVars, catalogVars,
                   spec_doc, yaml_doc, catalog_doc>>

NextGen ==
    \/ CallGenerateSpec
    \/ CallGenerate
    \/ CallCreateSpecification
    \/ CallGenerateSpecPermuted

SpecGen == InitGen /\ [][NextGen]_vars
-----------------------------------------------------------------------------
(* The properties of the generators. *)

\* The protocols of the server entries of a document.
ServerProtocols(doc) == { doc.servers[k].protocol : k \in DOMAIN doc.servers }

\* A document as the scenario describes it: two servers, of protocols amqp
\* and kafka, and the two channels order_placed and payment_processed.
AsScenarioDocument(outcome) ==
    /\ ~outcome.raised
    /\ Cardinality(DOMAIN outcome.spec.servers) = 2
    /\ ServerProtocols(outcome.spec) = {"amqp", "kafka"}
    /\ DOMAIN outcome.spec.channels = {S_order_placed_id, S_payment_processed_id}

\* The same of the text generator.generate returns.
AsScenarioText(lines) ==
    /\ Cardinality(EntryKeys(Section(lines, Y_servers))) = 2
    /\ { l.value : l \in { Section(lines, Y_servers)[i] : i \in
            { j \in 1..Len(Section(lines, Y_servers)) :
                Section(lines, Y_servers)[j].key = Y_protocol } } } = {<<"a", "m", "q", "p">>, <<"k", "a", "f", "k", "a">>}
    /\ EntryKeys(Section(lines, Y_channels)) = {S_order_placed_id, S_payment_processed_id}

ScenarioRecords == << Rec_order_placed, Rec_payment_processed >>

\* C4 (the statement, which the code does not meet): from the two records
\* "order.placed"/rabbitmq and "payment.processed"/kafka, generation gives
\* a document with exactly two servers, of protocols amqp and kafka, and
\* exactly the two channels order_placed and payment_processed, by at
\* least one of the generators of the repository.
C4_AsClaimed ==
    (pc \in AfterCreateSpecification /\ events = ScenarioRecords) =>
        \/ AsScenarioDocument(spec_doc)
        \/ AsScenarioText(yaml_doc)
        \/ AsScenarioDocument(catalog_doc)

\* C5: generating from an empty event list does not fail; the document has
\* the AsyncAPI version tag, an info block with title, version and
\* description, and a channels section (and, from generate_spec, an
\* operations section) that is present and empty.
C5_EmptyListGenerates ==
    events = <<>> =>
        /\ pc \in AfterGenerateSpec =>
              /\ ~spec_doc.raised
              /\ spec_doc.spec.asyncapi = "3.0.0"
              /\ {"title", "version", "description"} \subseteq DOMAIN spec_doc.spec.info
              /\ spec_doc.spec.info.title = S_service \o S_Event_API
              /\ spec_doc.spec.info.version = "1.0.0"
              /\ {"channels", "operations"} \subseteq DOMAIN spec_doc.spec
              /\ DOMAIN spec_doc.spec.channels = {}
              /\ DOMAIN spec_doc.spec.operations = {}
        /\ pc \in AfterGenerate =>
              /\ L(0, <<"a", "s", "y", "n", "c", "a", "p", "i">>, <<"2", ".", "6", ".", "0">>) = yaml_doc[1]
              /\ EntryKeys(Section(yaml_doc, <<"i", "n", "f", "o">>))
                    = {<<"t", "i", "t", "l", "e">>, <<"v", "e", "r", "s", "i", "o", "n">>, <<"d", "e", "s", "c", "r", "i", "p", "t", "i", "o", "n">>}
              /\ \E i \in 1..Len(yaml_doc) : yaml_doc[i] = L(0, Y_channels, Y_empty_mapping)
              /\ Section(yaml_doc, Y_channels) = <<>>
        /\ pc \in AfterCreateSpecification =>
              /\ ~catalog_doc.raised
              /\ catalog_doc.spec.asyncapi = "2.6.0"
              /\ {"title", "version", "description"} \subseteq DOMAIN catalog_doc.spec.info
              /\ DOMAIN catalog_doc.spec.channels = {}

C5_Witness ==
    /\ pc = "filed"
    /\ events = <<>>
    /\ ~spec_doc.raised
    /\ DOMAIN spec_doc.spec.channels = {}
    /\ Len(yaml_doc) = Len(BaseSpecLines) + 1

\* The channel keys, server keys, message ids and schema ids of a document.
Membership(doc) ==
    [ channels |-> DOMAIN doc.channels,
      servers |-> DOMAIN doc.servers,
      messages |-> DOMAIN doc.components.messages,
      schemas |-> DOMAIN doc.components.schemas ]

\* C10 (the statement, which the code does not meet): generate_spec on an
\* event list and on a permutation of it either both fail or give documents
\* with the same channel keys, server keys, message ids and schema ids.
C10_AsClaimed ==
    pc = "permuted" =>
        /\ spec_doc.raised = spec_doc_permuted.raised
        /\ ~spec_doc.raised => Membership(spec_doc.spec) = Membership(spec_doc_permuted.spec)

\* The input on which the permutation changes the message ids: two equal
\* records and a third one of the same channel.
C10_FailingInput ==
    /\ pc = "permuted"
    /\ events = << Ev_created, Ev_created, Ev_audit >>
    /\ permuted = << Ev_created, Ev_audit, Ev_created >>
    /\ DOMAIN spec_doc.spec.components.messages
         = { MessageId(S_orders_created_id, 0), MessageId(S_orders_created_id, 2) }
    /\ DOMAIN spec_doc_permuted.spec.components.messages
         = { MessageId(S_orders_created_id, 0), MessageId(S_orders_created_id, 1) }

\* What the three generators make of the scenario records.
C4_FailingInput ==
    /\ pc = "filed"
    /\ events = ScenarioRecords
    /\ spec_doc.raised
    /\ EntryKeys(Section(yaml_doc, Y_servers)) = {<<"d", "e", "v", "e", "l", "o", "p", "m", "e", "n", "t">>}
    /\ EntryKeys(Section(yaml_doc, Y_channels)) = {S_order_placed, S_payment_processed}
    /\ ~catalog_doc.raised
    /\ ServerProtocols(catalog_doc.spec) = {S_rabbitmq, S_kafka}
    /\ DOMAIN catalog_doc.spec.servers
         = {S_rabbitmq \o S_server_suffix, S_kafka \o S_server_suffix}
    /\ DOMAIN catalog_doc.spec.channels = {S_order_placed, S_payment_processed}
-----------------------------------------------------------------------------
(* SourcegraphClient of src/sourcegraph_client.py.  A request to the API
   either fails with a requests.exceptions.RequestException (no connection,
   a timeout, an error status) or gives the decoded JSON body. *)

S_default_url == <<"h", "t", "t", "p", "s", ":", "/", "/", "s", "o", "u", "r", "c", "e", "g", "r", "a", "p", "h", ".", "c", "o", "m">>
S_url == <<"h", "t", "t", "p", "s", ":", "/", "/", "s", "g", ".", "e", "x", "a", "m", "p", "l", "e", ".", "c", "o", "m">>
S_token == <<"s", "g", "p", "_", "t", "o", "k", "e", "n">>

RequestFailed == [failed |-> TRUE, body |-> EmptyDict]
Answered(body) == [failed |-> FALSE, body |-> body]

\* SourcegraphClient.__init__: a missing token is a warning only.
NewSourcegraphClient(section) ==
    [ url |-> Get(section, "url", S_default_url),
      token |-> Get(section, "token", <<>>),
      timeout |-> Get(section, "timeout", 30) ]

\* data.get('data', {}).get('search', {}).get('results', {}): the value
\* reached, or NotAMapping when one of the .get calls is made on a value
\* that is no dict and raises AttributeError.
ResultsOf(body) ==
    IF ~IsMapping(body) THEN NotAMapping
    ELSE LET data == Get(body, "data", EmptyDict)
         IN  IF ~IsMapping(data) THEN NotAMapping
             ELSE LET search == Get(data, "search", EmptyDict)
                  IN  IF ~IsMapping(search) THEN NotAMapping
                      ELSE Get(search, "results", EmptyDict)

\* search_code catching every exception.
SearchCodeCatchingAll(response) ==
    IF response.failed \/ ~IsMapping(ResultsOf(response.body)) THEN Returned(<<>>)
    ELSE Returned(Get(ResultsOf(response.body), "results", <<>>))

\* SourcegraphClient.search_code: only a RequestException is caught.
SearchCode(response) ==
    IF response.failed THEN Returned(<<>>)
    ELSE LET outer == ResultsOf(response.body)
         IN  IF ~IsMapping(outer) THEN Raised
             ELSE Returned(Get(outer, "results", <<>>))

\* SourcegraphClient.get_repositories: repo['name'] of every listed
\* repository; the same exceptions escape.
GetRepositories(response) ==
    IF response.failed THEN Returned(<<>>)
    ELSE LET outer == ResultsOf(response.body)
         IN  IF ~IsMapping(outer) THEN Raised
             ELSE LET listed == Get(outer, "repositories", <<>>)
                  IN  IF \E i \in 1..Len(listed) : "name" \notin DOMAIN listed[i]
                      THEN Raised
                      ELSE Returned([ i \in 1..Len(listed) |-> listed[i].name ])

\* How a request ended, for the log of requests.
Ending(response, outcome) ==
    IF response.failed THEN "failed" ELSE IF outcome.raised THEN "malformed" ELSE "answered"

-----------------------------------------------------------------------------
(* The responses of the API in the model. *)

MaxRepos == 2       \* most repositories in the answer to the repository listing

Repos == { S_repo, S_repo_audit }

SearchBody(results) == [data |-> [search |-> [results |-> [results |-> results]]]]
ListingBody(names) ==
    [data |-> [search |-> [results |->
        [repositories |-> [ i \in 1..Len(names) |-> [name |-> names[i]] ]]]]]

\* The body of a GraphQL error: {"errors": [...], "data": null}
ErrorBody == [errors |-> << [message |-> "search failed"] >>, data |-> NotAMapping]

FirstSearchOf(broker) == Min({ i \in Searches : LibraryPairs[i].broker_type = broker })

\* The responses to the searches of one repository: no match at all,
Quiet == [ i \in Searches |-> Answered(SearchBody(<<>>)) ]

\* the two matches of the detection scenario,
WithScenario ==
    [ Quiet EXCEPT ![FirstSearchOf(S_rabbitmq)] = Answered(SearchBody(<< Match_basic_publish >>)),
                   ![FirstSearchOf(S_kafka)] = Answered(SearchBody(<< Match_kafka_send >>)) ]

\* a request that fails before a search that matches,
WithFailedRequest ==
    [ Quiet EXCEPT ![FirstSearchOf(S_kafka)] = RequestFailed,
                   ![FirstSearchOf(S_rabbitmq)] = Answered(SearchBody(<< Match_basic_publish >>)) ]

\* and a GraphQL error after a search that matches.
WithErrorBody ==
    [ Quiet EXCEPT ![FirstSearchOf(S_kafka)] = Answered(SearchBody(<< Match_kafka_send >>)),
                   ![FirstSearchOf(S_rabbitmq)] = Answered(ErrorBody) ]

RepoResponses == { Quiet, WithScenario, WithFailedRequest, WithErrorBody }

ListingResponses ==
    { Answered(ListingBody(names)) : names \in SeqsUpTo(Repos, MaxRepos) }
        \cup { RequestFailed, Answered(ErrorBody) }

-----------------------------------------------------------------------------
(* CatalogManager of src/catalog_manager.py.  specifications is the dict in
   insertion order, a sequence of [repo, spec]; a file holds a document in
   a format; the generated_at field of the index is left out. *)

S_json == <<".", "j", "s", "o", "n">>
S_yaml == <<".", "y", "a", "m", "l">>
S_catalog_index_json == <<"c", "a", "t", "a", "l", "o", "g", "_", "i", "n", "d", "e", "x", ".", "j", "s", "o", "n">>

\* add_specification keeping a list of documents instead of a dict keyed
\* by repository.
SetSpecificationAppending(specifications_, repository, spec) ==
    Append(specifications_, [repo |-> repository, spec |-> spec])

\* self.specifications[repo] = spec
SetSpecification(specifications_, repository, spec) ==
    IF \E i \in 1..Len(specifications_) : specifications_[i].repo = repository
    THEN [ i \in 1..Len(specifications_) |->
             IF specifications_[i].repo = repository
             THEN [repo |-> repository, spec |-> spec] ELSE specifications_[i] ]
    ELSE Append(specifications_, [repo |-> repository, spec |-> spec])

\* repo.replace('/', '_').replace('\\', '_')
SafeName(repository) ==
    [ i \in 1..Len(repository) |->
        IF repository[i] \in {"/", "\\"} THEN "_" ELSE repository[i] ]

JsonFile(document) == [format |-> "json", document |-> document]
YamlFile(document) == [format |-> "yaml", document |-> document]

\* The variant whose total is the number of repositories scanned.
CatalogIndexCountingRepositories(specifications_) ==
    [ total_specifications |-> Len(repositories),
      specifications |->
        [ i \in 1..Len(specifications_) |->
            [ repository |-> specifications_[i].repo,
              title |-> specifications_[i].spec.info.title,
              version |-> specifications_[i].spec.info.version,
              channels |-> Cardinality(DOMAIN Get(specifications_[i].spec, "channels", EmptyDict)),
              file |-> SafeName(specifications_[i].repo) \o S_json ] ] ]

\* The index _save_catalog_index builds.
CatalogIndex(specifications_) ==
    [ total_specifications |-> Len(specifications_),
      specifications |->
        [ i \in 1..Len(specifications_) |->
            [ repository |-> specifications_[i].repo,
              title |-> specifications_[i].spec.info.title,
              version |-> specifications_[i].spec.info.version,
              channels |-> Cardinality(DOMAIN Get(specifications_[i].spec, "channels", EmptyDict)),
              file |-> SafeName(specifications_[i].repo) \o S_json ] ] ]

\* How the writes of one document may end: both files written, the JSON
\* write failing (the YAML file is then not attempted), the YAML write
\* failing.
WriteEndings == { "written", "json_fails", "yaml_fails" }
-----------------------------------------------------------------------------
(* main of src/main.py. *)

\* What the --config path may hold: no file, a file that is no JSON, or a
\* JSON value.
NoConfigFile == [exists |-> FALSE, json |-> FALSE, value |-> EmptyDict]
BrokenConfigFile == [exists |-> TRUE, json |-> FALSE, value |-> EmptyDict]
ConfigFile(value) == [exists |-> TRUE, json |-> TRUE, value |-> value]

FullConfig ==
    [ sourcegraph |-> [url |-> S_url, token |-> S_token], event_detection |-> EmptyDict ]
\* A configuration without the token, and one without any option.
TokenlessConfig == [ sourcegraph |-> [url |-> S_url] ]
ConfigValues ==
    { FullConfig, TokenlessConfig, EmptyDict, NotAMapping, [sourcegraph |-> NotAMapping] }

ConfigFiles == { NoConfigFile, BrokenConfigFile } \cup { ConfigFile(v) : v \in ConfigValues }

NotExited == <<>>
Exited(code) == << code >>

\* A repository named with its code host, as Sourcegraph names repositories.
S_repo_host == <<"g", "i", "t", "h", "u", "b", ".", "c", "o", "m", "/", "O", "r", "g", "/", "S", "h", "o", "p">>

InitMain ==
    /\ pc = "load_config"
    /\ config_file \in ConfigFiles
    /\ arg_repository \in { <<>>, << S_repo >>, << S_repo_host >> }
    /\ config = EmptyDict
    /\ sourcegraph_client = EmptyDict
    /\ repositories = <<>>
    /\ next_repo = 1
    /\ specifications = <<>>
    /\ requests = <<>>
    /\ exit_code = NotExited
    /\ output_dir = FALSE
    /\ disk = EmptyDict
    /\ write_errors = {}
    /\ next_doc = 1
    /\ IdleDedup
    /\ IdleExtract
    /\ IdleDetect
    /\ IdleGen
    /\ IdleCatalog
    /\ detected_again = Unused /\ patterns = Unused /\ accessors = Unused
    /\ history = <<>>
    /\ IdleCli

\* load_config falling back to an empty configuration when the file is
\* missing or is no JSON.
LoadConfigDefaulting ==
    /\ pc = "load_config"
    /\ config' = IF config_file.exists /\ config_file.json THEN config_file.value ELSE EmptyDict
    /\ pc' = "init_components"
    /\ UNCHANGED <<config_file, arg_repository, sourcegraph_client, repositories, next_repo,
                   specifications, requests, exit_code>>
    /\ UNCHANGED <<dedupVars, repeatVars, cliVars, extractVars, detectVars, genVars, saveVars, catalogVars>>

\* load_config: sys.exit(1) on a missing file and on invalid JSON.
LoadConfig ==
    /\ pc = "load_config"
    /\ IF config_file.exists /\ config_file.json
       THEN /\ config' = config_file.value
            /\ pc' = "init_components"
            /\ UNCHANGED exit_code
       ELSE /\ exit_code' = Exited(1)
            /\ pc' = "exit"
            /\ UNCHANGED config
    /\ UNCHANGED <<config_file, arg_repository, sourcegraph_client, repositories, next_repo,
                   specifications, requests>>
    /\ UNCHANGED <<dedupVars, repeatVars, cliVars, extractVars, detectVars, genVars, saveVars, catalogVars>>

\* "Initialize components": config.get on a value that is no dict raises
\* outside the try block, which ends the process with exit code 1;
\* CatalogManager.__init__ makes the output directory.
InitComponents ==
    /\ pc = "init_components"
    /\ IF IsMapping(config) /\ IsMapping(Get(config, "sourcegraph", EmptyDict))
       THEN /\ sourcegraph_client' = NewSourcegraphClient(Get(config, "sourcegraph", EmptyDict))
            /\ output_dir' = TRUE
            /\ pc' = "get_repositories"
            /\ UNCHANGED exit_code
       ELSE /\ exit_code' = Exited(1)
            /\ pc' = "exit"
            /\ UNCHANGED <<sourcegraph_client, output_dir>>
    /\ UNCHANGED <<config_file, arg_repository, config, repositories, next_repo,
                   specifications, requests>>
    /\ UNCHANGED <<disk, write_errors, next_doc>>
    /\ UNCHANGED <<dedupVars, repeatVars, cliVars, extractVars, detectVars, genVars, catalogVars>>

\* "Get repositories to scan": the --repository argument, or the listing.
\* An exception of get_repositories is caught by main, which returns 1.
GetRepositoriesStep ==
    /\ pc = "get_repositories"
    /\ IF arg_repository # <<>>
       THEN /\ repositories' = arg_repository
            /\ pc' = "process"
            /\ UNCHANGED <<requests, exit_code>>
       ELSE \E response \in ListingResponses :
              LET outcome == GetRepositories(response)
              IN  /\ requests' = Append(requests,
                                        [ kind |-> "repositories", repo |-> <<>>, search |-> 0,
                                          ending |-> Ending(response, outcome) ])
                  /\ IF outcome.raised
                     THEN /\ exit_code' = Exited(1)
                          /\ pc' = "exit"
                          /\ UNCHANGED repositories
                     ELSE /\ repositories' = outcome.results
                          /\ pc' = "process"
                          /\ UNCHANGED exit_code
    /\ UNCHANGED <<config_file, arg_repository, config, sourcegraph_client, next_repo,
                   specifications>>
    /\ UNCHANGED <<dedupVars, repeatVars, cliVars, extractVars, detectVars, genVars, saveVars, catalogVars>>

\* One turn of "for repo in repositories": detect_events, and
\* add_specification when it returns events.  An exception of search_code
\* leaves detect_events and the loop: main returns 1.
ProcessRepository ==
    /\ pc = "process"
    /\ next_repo <= Len(repositories)
    /\ \E responses \in RepoResponses :
         LET repository == repositories[next_repo]
             answers == [ i \in Searches |-> SearchCode(responses[i]) ]
             outcome == DetectEvents(repository, answers)
             sent == [ i \in 1..Len(outcome.calls) |->
                         [ kind |-> "search", repo |-> repository, search |-> i,
                           ending |-> Ending(responses[i], answers[i]) ] ]
         IN  /\ requests' = requests \o sent
             /\ history' = Append(history, [ op |-> "detect", repo |-> repository,
                                             outcome |-> outcome ])
             /\ IF outcome.raised
                THEN /\ exit_code' = Exited(1)
                     /\ pc' = "exit"
                     /\ UNCHANGED <<specifications, next_repo>>
                ELSE /\ specifications' =
                          IF outcome.events # <<>>
                          THEN SetSpecification(specifications, repository,
                                    CreateSpecification(repository, outcome.events).spec)
                          ELSE specifications
                     /\ next_repo' = next_repo + 1
                     /\ UNCHANGED <<pc, exit_code>>
    /\ UNCHANGED <<config_file, arg_repository, config, sourcegraph_client, repositories>>
    /\ UNCHANGED <<detected_again, patterns, accessors>>
    /\ UNCHANGED <<dedupVars, cliVars, extractVars, detectVars, genVars, saveVars, catalogVars>>

\* catalog_manager.save(), once the loop is over:
\* CatalogManager._save_specification of the next document, where an
\* exception of a write is caught and logged.
SaveSpecification ==
    /\ pc = "process"
    /\ next_repo > Len(repositories)
    /\ next_doc <= Len(specifications)
    /\ \E ending \in WriteEndings :
         LET entry == specifications[next_doc]
             json_path == SafeName(entry.repo) \o S_json
             yaml_path == SafeName(entry.repo) \o S_yaml
         IN  CASE ending = "written" ->
                    /\ disk' = Put(Put(disk, json_path, JsonFile(entry.spec)),
                                   yaml_path, YamlFile(entry.spec))
                    /\ UNCHANGED write_errors
               [] ending = "json_fails" ->
                    /\ write_errors' = write_errors \cup { json_path }
                    /\ UNCHANGED disk
               [] ending = "yaml_fails" ->
                    /\ disk' = Put(disk, json_path, JsonFile(entry.spec))
                    /\ write_errors' = write_errors \cup { yaml_path }
    /\ next_doc' = next_doc + 1
    /\ UNCHANGED <<pc, output_dir>>
    /\ UNCHANGED <<dedupVars, repeatVars, cliVars, extractVars, detectVars, genVars, mainVars, catalogVars>>

\* CatalogManager._save_catalog_index, whose write failure is caught too;
\* main then returns 0.
SaveCatalogIndex ==
    /\ pc = "process"
    /\ next_repo > Len(repositories)
    /\ next_doc > Len(specifications)
    /\ \E written \in BOOLEAN :
         IF written
         THEN /\ disk' = Put(disk, S_catalog_index_json, JsonFile(CatalogIndex(specifications)))
              /\ UNCHANGED write_errors
         ELSE /\ write_errors' = write_errors \cup { S_catalog_index_json }
              /\ UNCHANGED disk
    /\ exit_code' = Exited(0)
    /\ pc' = "exit"
    /\ UNCHANGED <<config_file, arg_repository, config, sourcegraph_client, repositories,
                   next_repo, specifications, requests>>
    /\ UNCHANGED <<output_dir, next_doc>>
    /\ UNCHANGED <<dedupVars, repeatVars, cliVars, extractVars, detectVars, genVars, catalogVars>>

Next ==
    \/ LoadConfig
    \/ InitComponents
    \/ GetRepositoriesStep
    \/ ProcessRepository
    \/ SaveSpecification
    \/ SaveCatalogIndex

Spec == InitMain /\ [][Next]_vars
-----------------------------------------------------------------------------
(* CatalogManager of src/src/asyncapi_discovery/catalog_manager.py:
   save_catalog(specs), specs a list of {service, spec}. *)

MaxSpecs == 2       \* longest list handed to save_catalog

UpperCase == <<"A", "B", "C", "D", "E", "F", "G", "H", "I", "J", "K", "L", "M", "N", "O", "P", "Q", "R", "S", "T", "U", "V", "W", "X", "Y", "Z">>
LowerCase == <<"a", "b", "c", "d", "e", "f", "g", "h", "i", "j", "k", "l", "m", "n", "o", "p", "q", "r", "s", "t", "u", "v", "w", "x", "y", "z">>
Alnum == { UpperCase[i] : i \in 1..Len(UpperCase) } \cup { LowerCase[i] : i \in 1..Len(LowerCase) }
            \cup { Digits[i] : i \in 1..Len(Digits) }

\* str.lower of one character
Lower(c) ==
    IF \E i \in 1..Len(UpperCase) : UpperCase[i] = c
    THEN LowerCase[CHOOSE i \in 1..Len(UpperCase) : UpperCase[i] = c]
    ELSE c

\* CatalogManager._sanitize_filename
SanitizeFilename(name) ==
    LET safe == [ i \in 1..Len(name) |-> IF name[i] \in {"/", "\\", " "} THEN "_" ELSE name[i] ]
        kept == SelectSeq(safe, LAMBDA c : c \in Alnum \cup {"_", "-"})
    IN  [ i \in 1..Len(kept) |-> Lower(kept[i]) ]

S_specs_dir == <<"s", "p", "e", "c", "s", "/">>
S_catalog_index == <<"c", "a", "t", "a", "l", "o", "g", "-", "i", "n", "d", "e", "x", ".", "j", "s", "o", "n">>

YamlPath(service_name) == S_specs_dir \o SanitizeFilename(service_name) \o S_yaml
JsonPath(service_name) == S_specs_dir \o SanitizeFilename(service_name) \o S_json

\* The index the package's _save_catalog_index builds; the generated field
\* is left out and brokers is the set of the server keys.
ServiceIndex(specs_) ==
    [ totalServices |-> Len(specs_),
      services |->
        [ i \in 1..Len(specs_) |->
            LET spec == specs_[i].spec
                info == Get(spec, "info", EmptyDict)
            IN  [ name |-> specs_[i].service,
                  version |-> Get(info, "version", "1.0.0"),
                  title |-> Get(info, "title", <<>>),
                  channelCount |-> Cardinality(DOMAIN Get(spec, "channels", EmptyDict)),
                  operationCount |-> Cardinality(DOMAIN Get(spec, "operations", EmptyDict)),
                  brokers |-> DOMAIN Get(spec, "servers", EmptyDict),
                  specFiles |-> [ yaml |-> YamlPath(specs_[i].service),
                                  json |-> JsonPath(specs_[i].service) ] ] ] ]

S_Order_Service == <<"O", "r", "d", "e", "r", " ", "S", "e", "r", "v", "i", "c", "e">>
S_order_service_id == <<"o", "r", "d", "e", "r", "_", "s", "e", "r", "v", "i", "c", "e">>

ServiceNames == { S_service, S_Order_Service, S_order_service_id, S_repo }

Doc_created == GenerateSpec(S_service, << Ev_created >>, "1.0.0", 1, << S_repo >>).spec
Doc_collide == GenerateSpec(S_service, << Ev_collide >>, "1.0.0", 1, << <<>> >>).spec

CatalogEntries == { [service |-> n, spec |-> d] : n \in ServiceNames, d \in {Doc_created, Doc_collide} }

InitCatalog ==
    /\ pc = "save_catalog"
    /\ specs \in SeqsUpTo(CatalogEntries, MaxSpecs)
    /\ save_raised = FALSE
    /\ output_dir = TRUE
    /\ disk = EmptyDict
    /\ write_errors = {}
    /\ next_doc = 1
    /\ IdleDedup
    /\ IdleExtract
    /\ IdleDetect
    /\ IdleGen
    /\ IdleMain
    /\ IdleRepeat
    /\ IdleCli

\* CatalogManager._save_spec of the next document: the YAML file, then the
\* JSON file.  Nothing catches the exception of a write: it leaves
\* save_catalog.
SaveSpec ==
    /\ pc = "save_catalog"
    /\ next_doc <= Len(specs)
    /\ \E ending \in WriteEndings :
         LET entry == specs[next_doc]
             yaml_path == YamlPath(entry.service)
             json_path == JsonPath(entry.service)
         IN  CASE ending = "written" ->
                    /\ disk' = Put(Put(disk, yaml_path, YamlFile(entry.spec)),
                                   json_path, JsonFile(entry.spec))
                    /\ next_doc' = next_doc + 1
                    /\ UNCHANGED <<write_errors, save_raised, pc>>
               [] ending = "yaml_fails" ->
                    /\ write_errors' = write_errors \cup { yaml_path }
                    /\ save_raised' = TRUE
                    /\ pc' = "done"
                    /\ UNCHANGED <<disk, next_doc>>
               [] ending = "json_fails" ->
                    /\ disk' = Put(disk, yaml_path, YamlFile(entry.spec))
                    /\ write_errors' = write_errors \cup { json_path }
                    /\ save_raised' = TRUE
                    /\ pc' = "done"
                    /\ UNCHANGED next_doc
    /\ UNCHANGED <<specs, output_dir>>
    /\ UNCHANGED <<dedupVars, repeatVars, cliVars, extractVars, detectVars, genVars, mainVars>>

\* The package's _save_catalog_index, after the last document.
SaveServiceIndex ==
    /\ pc = "save_catalog"
    /\ next_doc > Len(specs)
    /\ \E written \in BOOLEAN :
         IF written
         THEN /\ disk' = Put(disk, S_catalog_index, JsonFile(ServiceIndex(specs)))
              /\ UNCHANGED <<write_errors, save_raised>>
         ELSE /\ write_errors' = write_errors \cup { S_catalog_index }
              /\ save_raised' = TRUE
              /\ UNCHANGED disk
    /\ pc' = "done"
    /\ UNCHANGED <<specs, output_dir, next_doc>>
    /\ UNCHANGED <<dedupVars, repeatVars, cliVars, extractVars, detectVars, genVars, mainVars>>

NextCatalog == SaveSpec \/ SaveServiceIndex

SpecCatalog == InitCatalog /\ [][NextCatalog]_vars
-----------------------------------------------------------------------------
(* The properties of the run of main and of the catalog writers. *)

\* The requests that did not give a well-formed answer.
FailedAccesses ==
    { i \in 1..Len(requests) : requests[i].ending \in {"failed", "malformed"} }

SearchesOf(repository) ==
    { i \in 1..Len(requests) : requests[i].kind = "search" /\ requests[i].repo = repository }

\* C7 (the statement, which the code does not meet): a run in which an
\* access to the corpus failed, by a network failure or a malformed
\* response, still ends with exit code 0, having sent every search of every
\* repository and saved the catalog of the repositories that yielded events
\* (each file is written unless its own write failed).
C7_AsClaimed ==
    (pc = "exit" /\ FailedAccesses # {}) =>
        /\ exit_code = Exited(0)
        /\ \A r \in 1..Len(repositories) :
               Cardinality(SearchesOf(repositories[r])) >= Len(LibraryPairs)
        /\ S_catalog_index_json \in DOMAIN disk \/ S_catalog_index_json \in write_errors
        /\ \A d \in 1..Len(specifications) :
               \/ SafeName(specifications[d].repo) \o S_json \in DOMAIN disk
               \/ SafeName(specifications[d].repo) \o S_json \in write_errors

\* The run that a malformed response ends: the first repository yielded
\* events, a search of the second is answered with a GraphQL error, main
\* returns 1 and nothing has been saved.
C7_FailingInput ==
    /\ pc = "exit"
    /\ exit_code = Exited(1)
    /\ repositories = << S_repo, S_repo_audit >>
    /\ Len(specifications) = 1
    /\ specifications[1].repo = S_repo
    /\ disk = EmptyDict
    /\ write_errors = {}
    /\ requests[Len(requests)] =
         [ kind |-> "search", repo |-> S_repo_audit, search |-> FirstSearchOf(S_rabbitmq),
           ending |-> "malformed" ]

\* The paths of the documents of the list handed to save_catalog.
DocumentPaths ==
    { YamlPath(specs[i].service) : i \in 1..Len(specs) }
        \cup { JsonPath(specs[i].service) : i \in 1..Len(specs) }

\* C8 (the statement, which the package's save_catalog does not meet): when
\* the write of a document has failed, save_catalog has not raised, every
\* document file whose own write did not fail is on disk, and so is the
\* index unless its own write failed.
C8_AsClaimed ==
    (pc = "done" /\ write_errors \cap DocumentPaths # {}) =>
        /\ ~save_raised
        /\ \A path \in DocumentPaths \ write_errors : path \in DOMAIN disk
        /\ S_catalog_index \in DOMAIN disk \/ S_catalog_index \in write_errors

\* Two documents, the YAML write of the first failing: the exception leaves
\* save_catalog, the second document and the index are never attempted.
C8_FailingInput ==
    /\ pc = "done"
    /\ Len(specs) = 2
    /\ specs[1].service = S_service
    /\ specs[2].service = S_repo
    /\ save_raised
    /\ write_errors = { YamlPath(S_service) }
    /\ disk = EmptyDict

\* A configuration file that cannot be used: missing, no JSON, or a JSON
\* value that is no mapping of sections that are mappings.
ConfigError ==
    \/ ~config_file.exists
    \/ ~config_file.json
    \/ ~IsMapping(config_file.value)
    \/ ~IsMapping(Get(config_file.value, "sourcegraph", EmptyDict))

\* A usable configuration file that lacks an option of the Sourcegraph
\* client (the section itself, or its token).
LacksOption ==
    /\ ~ConfigError
    /\ "token" \notin DOMAIN Get(config_file.value, "sourcegraph", EmptyDict)

\* The process has not gone past reading its configuration: no request has
\* been sent, no file written, the output directory not made.
NothingScanned ==
    /\ requests = <<>>
    /\ disk = EmptyDict
    /\ write_errors = {}
    /\ output_dir = FALSE
    /\ repositories = <<>>

-----------------------------------------------------------------------------
(* Further properties of the generators. *)

\* A document with its generation timestamp blanked.
WithoutTimestamp(doc) == [ doc EXCEPT !.info.x_generated.timestamp = 0 ]

\* C11 (the statement, which the code does not meet): two calls of
\* generate_spec with the same service name, event list and version either
\* both fail or give documents equal in every field but the timestamp, the
\* order of the listed repositories included.
C11_AsClaimed ==
    (pc = "permuted" /\ permuted = events) =>
        /\ spec_doc.raised = spec_doc_permuted.raised
        /\ ~spec_doc.raised =>
              WithoutTimestamp(spec_doc.spec) = WithoutTimestamp(spec_doc_permuted.spec)

\* Two calls on the same list of two events of two repositories, whose
\* documents list the repositories in different orders and agree otherwise.
C11_FailingInput ==
    /\ pc = "permuted"
    /\ events = << Ev_created, Ev_audit >>
    /\ permuted = events
    /\ spec_doc.spec.info.x_generated.repositories = << S_repo, S_repo_audit >>
    /\ spec_doc_permuted.spec.info.x_generated.repositories = << S_repo_audit, S_repo >>
    /\ spec_doc.spec.operations = spec_doc_permuted.spec.operations
    /\ spec_doc.spec.channels = spec_doc_permuted.spec.channels
    /\ spec_doc.spec.components = spec_doc_permuted.spec.components

-----------------------------------------------------------------------------
(* detect_events run twice against one accessor, and _deduplicate_events
   applied to the list detect_events returned. *)

MaxRepeatHits == 2

\* The result lists a query is answered with, the same at every call.
RepeatResults ==
    { << Match_kafka_send >>,
      << Match_user_created, Match_kafka_send >> }

InitRepeat ==
    /\ pc = "start"
    /\ \E H \in SubsetsUpTo(Searches, MaxRepeatHits) :
         \E g \in [H -> RepeatResults] : corpus = Accessor(H, g)
    /\ repo = S_repo
    /\ detected = NoOutcome
    /\ detected_again = NoOutcome
    /\ IdleCalls
    /\ unique_events = <<>>
    /\ events = <<>>
    /\ IdleExtract
    /\ IdleGen
    /\ IdleMain
    /\ IdleSave
    /\ IdleCatalog
    /\ IdleCli

DetectOnce ==
    /\ pc = "start"
    /\ detected' = DetectEvents(repo, corpus)
    /\ pc' = "detected"
    /\ UNCHANGED <<corpus, repo, dedupVars, repeatVars, cliVars, extractVars, genVars, mainVars, saveVars, catalogVars>>

DetectAgain ==
    /\ pc = "detected"
    /\ detected_again' = DetectEvents(repo, corpus)
    /\ pc' = "repeated"
    /\ UNCHANGED <<detectVars, dedupVars, callVars, cliVars, extractVars, genVars, mainVars, saveVars, catalogVars>>

DeduplicateAgain ==
    /\ pc = "repeated"
    /\ events' = detected.events
    /\ unique_events' = DeduplicateEvents(detected.events)
    /\ pc' = "done"
    /\ UNCHANGED <<detectVars, repeatVars, cliVars, extractVars, genVars, mainVars, saveVars, catalogVars>>

NextRepeat == DetectOnce \/ DetectAgain \/ DeduplicateAgain

SpecRepeat == InitRepeat /\ [][NextRepeat]_vars

-----------------------------------------------------------------------------
(* An event record without its name in the three generators. *)

\* The events of the list that lack the key.
Lacking(evs, key) == { i \in 1..Len(evs) : key \notin DOMAIN evs[i] }

\* The names the other events of the list carry under the key.
NamesUnder(evs, key) == { evs[i][key] : i \in 1..Len(evs) \ Lacking(evs, key) }

\* C13 (the statement, which the code does not meet): whenever a record of
\* the list lacks the name a generator reads (name for generate and
\* add_specification, channel_name for generate_spec), the generator does
\* not fail, its document has the channel "unknown", and the names of the
\* other records are channels of the document too.
C13_AsClaimed ==
    /\ (pc \in AfterGenerateSpec /\ Lacking(events, "channel_name") # {}) =>
          /\ ~spec_doc.raised
          /\ {S_unknown} \cup NamesUnder(events, "channel_name") \subseteq DOMAIN spec_doc.spec.channels
    /\ (pc \in AfterGenerate /\ Lacking(events, "name") # {}) =>
          {S_unknown} \cup NamesUnder(events, "name")
              \subseteq EntryKeys(Section(yaml_doc, Y_channels))
    /\ (pc \in AfterCreateSpecification /\ Lacking(events, "name") # {}) =>
          /\ ~catalog_doc.raised
          /\ {S_unknown} \cup NamesUnder(events, "name") \subseteq DOMAIN catalog_doc.spec.channels

\* The list of a record without channel_name and a record without name:
\* generate gives the channels "payment.processed" and "unknown", while
\* generate_spec and add_specification fail.
C13_FailingInput ==
    /\ pc = "filed"
    /\ events = << Rec_payment_processed, Ev_collide >>
    /\ Lacking(events, "channel_name") = {1}
    /\ Lacking(events, "name") = {2}
    /\ EntryKeys(Section(yaml_doc, Y_channels)) = {S_payment_processed, S_unknown}
    /\ spec_doc.raised
    /\ catalog_doc.raised

\* C13, the part that generate of generator.py meets: the record without
\* name is the channel "unknown" and the other names are channels.
C13_GenerateDefaultsTheName ==
    (pc \in AfterGenerate /\ Lacking(events, "name") # {}) =>
        {S_unknown} \cup NamesUnder(events, "name") \subseteq EntryKeys(Section(yaml_doc, Y_channels))

-----------------------------------------------------------------------------
(* AsyncAPIDiscovery.generate_spec(producers) of discovery.py: the
   generator of generator.py applied to a producers mapping. *)

MaxProducerEvents == 3   \* longest events list of a producers mapping

S_producer == <<"p", "r", "o", "d", "u", "c", "e", "r">>

\* Event records as the scanner makes them, two with one name; a record
\* named "unknown"; a record without a name.
P_user_created_a == [ name |-> S_user_created, file |-> S_file_a, type |-> S_producer ]
P_user_created_b == [ name |-> S_user_created, file |-> S_file_b, type |-> S_producer ]
P_order_placed == [ name |-> S_order_placed, file |-> S_file_a, type |-> S_producer ]
P_unknown == [ name |-> S_unknown, file |-> S_file_b, type |-> S_producer ]
P_nameless == [ file |-> S_file_a, type |-> S_producer ]

ProducerEvents == { P_user_created_a, P_user_created_b, P_order_placed, P_unknown, P_nameless }

\* A producers mapping without the events key.
NoEventsKey == [ files |-> <<>> ]

InitGenerate ==
    /\ pc = "start"
    /\ \/ \E evs \in SeqsUpTo(ProducerEvents, MaxProducerEvents) : scan_result = [ events |-> evs ]
       \/ scan_result = NoEventsKey
    /\ spec_text = <<>>
    /\ cli_entry = Unused /\ repository_path = Unused /\ tree = Unused /\ output_path = Unused
    /\ discover_only = Unused /\ scanned = Unused /\ files_written = Unused /\ cli_exit = Unused
    /\ IdleDedup
    /\ IdleExtract
    /\ IdleDetect
    /\ IdleGen
    /\ IdleMain
    /\ IdleSave
    /\ IdleCatalog
    /\ IdleRepeat

GenerateSpecFor ==
    /\ pc = "start"
    /\ spec_text' = Generate(scan_result)
    /\ pc' = "generated"
    /\ UNCHANGED <<dedupVars, repeatVars, extractVars, detectVars, genVars, mainVars, saveVars,
                   catalogVars, cli_entry, repository_path, tree, output_path, discover_only,
                   scanned, scan_result, files_written, cli_exit>>

NextGenerate == GenerateSpecFor

SpecGenerate == InitGenerate /\ [][NextGenerate]_vars

\* The lines of the entry of a section under the given key: the key's line
\* and the deeper lines that follow it.
Entry(section, key) ==
    LET at == { i \in 1..Len(section) : section[i].indent = 1 /\ section[i].key = key }
    IN  IF at = {} THEN <<>>
        ELSE LET start == Min(at)
                 later == { i \in (start + 1)..Len(section) : section[i].indent <= 1 }
                 stop == IF later = {} THEN Len(section) + 1 ELSE Min(later)
             IN  SubSeq(section, start, stop - 1)

\* The name generate reads from an event.
NameOrUnknown(event) == Get(event, "name", S_unknown)

\* C14: the channels section of the document generate returns has the names
\* of the events of the list as its keys ("unknown" for an event without a
\* name), one entry per name, and the entry of a name is the channel made
\* from the first event of the list carrying that name.
C14_OneChannelPerNameFromFirstEvent ==
    pc = "generated" =>
        LET evs == Get(scan_result, "events", <<>>)
            channels == Section(spec_text, Y_channels)
            names == { NameOrUnknown(evs[i]) : i \in 1..Len(evs) }
        IN  /\ EntryKeys(channels) = names
            /\ Cardinality({ i \in 1..Len(channels) : channels[i].indent = 1 }) = Cardinality(names)
            /\ \A i \in 1..Len(evs) :
                  (\A j \in 1..(i - 1) : NameOrUnknown(evs[j]) # NameOrUnknown(evs[i])) =>
                      Entry(channels, NameOrUnknown(evs[i])) = ChannelLines(NameOrUnknown(evs[i]), evs[i])

\* A record without a name comes before a record named "unknown" and two
\* records share another name: the document has two channels, the one
\* named "unknown" titled "Unknown Event" after the record without a name.
C14_Witness ==
    /\ pc = "generated"
    /\ scan_result = [ events |-> << P_nameless, P_user_created_a, P_unknown >> ]
    /\ EntryKeys(Section(spec_text, Y_channels)) = { S_unknown, S_user_created }
    /\ \E i \in 1..Len(spec_text) :
          spec_text[i] = L(4, <<"t", "i", "t", "l", "e">>, S_Unknown_Event)

-----------------------------------------------------------------------------
(* RepositoryScanner of scanner.py.  A file is its path as str(file_path)
   gives it, its text, and whether read_text can read it. *)

File(path, content, readable) == [ path |-> path, content |-> content, readable |-> readable ]

supported_extensions == << <<".", "p", "y">>, <<".", "j", "s">>, <<".", "t", "s">>, <<".", "j", "a", "v", "a">>, <<".", "g", "o">> >>

skip_patterns ==
    << <<"/", "t", "e", "s", "t", "/">>, <<"/", "t", "e", "s", "t", "s", "/">>, <<"/", "_", "_", "p", "y", "c", "a", "c", "h", "e", "_", "_", "/">>, <<"/", "n", "o", "d", "e", "_", "m", "o", "d", "u", "l", "e", "s", "/">>,
       <<"/", "v", "e", "n", "v", "/">>, <<"/", ".", "g", "i", "t", "/">>, <<"/", "d", "i", "s", "t", "/">>, <<"/", "b", "u", "i", "l", "d", "/">> >>

\* The keywords of the four patterns of _scan_file, each followed by
\* \s*\(\s*["\']([^"\']+)["\']
ProducerKeywords == << <<"p", "u", "b", "l", "i", "s", "h">>, <<"s", "e", "n", "d">>, <<"e", "m", "i", "t">>, <<"p", "r", "o", "d", "u", "c", "e">> >>

Quotes == { "\"", "'" }
Whitespace == { " ", "\t", "\n" }

\* "sub in s"
Contains(s, sub) ==
    \E p \in 1..(Len(s) - Len(sub) + 1) : SubSeq(s, p, p + Len(sub) - 1) = sub

EndsWith(s, suffix) ==
    /\ Len(s) >= Len(suffix)
    /\ SubSeq(s, Len(s) - Len(suffix) + 1, Len(s)) = suffix

\* The variant that skips on the directory names "test" and "tests" only.
ShouldSkipTestsOnly(path) == \E i \in 1..2 : Contains(path, skip_patterns[i])

\* RepositoryScanner._should_skip
ShouldSkip(path) == \E i \in 1..Len(skip_patterns) : Contains(path, skip_patterns[i])

\* The first position from p on that holds no whitespace (\s*).
RECURSIVE SkipWhitespace(_, _)
SkipWhitespace(content, p) ==
    IF p <= Len(content) /\ content[p] \in Whitespace THEN SkipWhitespace(content, p + 1) ELSE p

\* The first position from p on that holds a quote, Len + 1 if none
\* ([^"\']+ takes every character before it).
RECURSIVE SkipToQuote(_, _)
SkipToQuote(content, p) ==
    IF p <= Len(content) /\ content[p] \notin Quotes THEN SkipToQuote(content, p + 1) ELSE p

NoMatch == [ found |-> FALSE, name |-> <<>>, end |-> 0 ]

\* re.match of one pattern at position p: the captured group and the
\* position after the match.
MatchPatternAt(content, keyword, p) ==
    LET lparen == SkipWhitespace(content, p + Len(keyword))
        open == SkipWhitespace(content, lparen + 1)
        close == SkipToQuote(content, open + 1)
    IN  IF /\ p + Len(keyword) - 1 <= Len(content)
           /\ SubSeq(content, p, p + Len(keyword) - 1) = keyword
           /\ lparen <= Len(content) /\ content[lparen] = "("
           /\ open <= Len(content) /\ content[open] \in Quotes
           /\ close > open + 1
           /\ close <= Len(content)
        THEN [ found |-> TRUE, name |-> SubSeq(content, open + 1, close - 1), end |-> close + 1 ]
        ELSE NoMatch

\* re.finditer of one pattern from position p on: the captured groups of
\* the matches, left to right, none overlapping another.
RECURSIVE FindIter(_, _, _)
FindIter(content, keyword, p) ==
    IF p > Len(content) THEN <<>>
    ELSE LET match == MatchPatternAt(content, keyword, p)
         IN  IF match.found
             THEN << match.name >> \o FindIter(content, keyword, match.end)
             ELSE FindIter(content, keyword, p + 1)

\* RepositoryScanner._scan_file: nothing for a file that cannot be read.
ScanFile(file) ==
    IF ~file.readable THEN <<>>
    ELSE LET names == Flatten([ k \in 1..Len(ProducerKeywords) |->
                                  FindIter(file.content, ProducerKeywords[k], 1) ])
         IN  [ i \in 1..Len(names) |->
                 [ name |-> names[i], file |-> file.path, type |-> S_producer ] ]

\* list(self.repository_path.rglob('*' + ext)) on the files as the
\* directory walk meets them
Rglob(walk, ext) == SelectSeq(walk, LAMBDA f : EndsWith(f.path, ext))

NoProducers ==
    [ events |-> <<>>, files |-> <<>>,
      statistics |-> [ total_files_scanned |-> 0, producers_found |-> 0 ] ]

\* The variant of the loop below that counts a file with events as one
\* producer.
RECURSIVE ScanFilesCountingFiles(_, _, _, _)
ScanFilesCountingFiles(files, i, found, visited) ==
    IF i > Len(files) THEN [ producers |-> found, visited |-> visited ]
    ELSE IF ShouldSkip(files[i].path) THEN ScanFilesCountingFiles(files, i + 1, found, visited)
    ELSE LET evs == ScanFile(files[i])
         IN  ScanFilesCountingFiles(files, i + 1,
                 IF evs = <<>> THEN found
                 ELSE [ events |-> found.events \o evs,
                        files |-> Append(found.files, files[i].path),
                        statistics |->
                          [ found.statistics EXCEPT
                              !.producers_found = found.statistics.producers_found + 1 ] ],
                 Append(visited, files[i].path))

\* The loop "for file_path in files" of scan, from file i on; visited is
\* the list of the files handed to _scan_file.
RECURSIVE ScanFilesFrom(_, _, _, _)
ScanFilesFrom(files, i, found, visited) ==
    IF i > Len(files) THEN [ producers |-> found, visited |-> visited ]
    ELSE IF ShouldSkip(files[i].path) THEN ScanFilesFrom(files, i + 1, found, visited)
    ELSE LET evs == ScanFile(files[i])
         IN  ScanFilesFrom(files, i + 1,
                 IF evs = <<>> THEN found
                 ELSE [ events |-> found.events \o evs,
                        files |-> Append(found.files, files[i].path),
                        statistics |->
                          [ found.statistics EXCEPT
                              !.producers_found = found.statistics.producers_found + Len(evs) ] ],
                 Append(visited, files[i].path))

\* The loop "for ext in self.supported_extensions" of scan, from
\* extension k on.
RECURSIVE ScanFrom(_, _, _, _)
ScanFrom(walk, k, found, visited) ==
    IF k > Len(supported_extensions) THEN [ producers |-> found, visited |-> visited ]
    ELSE LET files == Rglob(walk, supported_extensions[k])
             counted == [ found EXCEPT !.statistics.total_files_scanned = @ + Len(files) ]
             after == ScanFilesFrom(files, 1, counted, visited)
         IN  ScanFrom(walk, k + 1, after.producers, after.visited)

\* RepositoryScanner.scan
Scan(walk) == ScanFrom(walk, 1, NoProducers, <<>>)

-----------------------------------------------------------------------------
(* AsyncAPIDiscovery.run of discovery.py and main of cli.py: the scan of a
   repository directory, the generation of the document and its writing
   to the output path. *)

MaxFiles == 2   \* most files under the repository path

S_asyncapi_yaml == <<"a", "s", "y", "n", "c", "a", "p", "i", ".", "y", "a", "m", "l">>
S_out_spec_yaml == <<"o", "u", "t", "/", "s", "p", "e", "c", ".", "y", "a", "m", "l">>

\* The repository paths: a relative directory, the current directory, and
\* a directory below one named build.
Roots == { <<"r", "e", "p", "o">>, <<".">>, <<"/", "s", "r", "v", "/", "b", "u", "i", "l", "d", "/", "r", "e", "p", "o">> }

\* str(self.repository_path / rel)
PathJoin(root, rel) == IF root = <<".">> THEN rel ELSE root \o <<"/">> \o rel

\* The files that may lie under a repository path.
SampleFiles(root) ==
    { File(PathJoin(root, <<"s", "r", "c", "/", "p", "r", "o", "d", "u", "c", "e", "r", ".", "p", "y">>), <<"p", "u", "b", "l", "i", "s", "h", "(", "\"", "u", "s", "e", "r", ".", "c", "r", "e", "a", "t", "e", "d", "\"", ")">>, TRUE),
      File(PathJoin(root, <<"t", "e", "s", "t", "s", "/", "t", "e", "s", "t", "_", "p", ".", "p", "y">>), <<"p", "u", "b", "l", "i", "s", "h", "(", "\"", "t", "e", "s", "t", ".", "e", "v", "e", "n", "t", "\"", ")">>, TRUE),
      File(PathJoin(root, <<"s", "r", "c", "/", "a", "p", "p", ".", "j", "s">>), <<"e", "m", "i", "t", "(", "'", "a", "'", ")", ";", " ", "s", "e", "n", "d", "(", " ", "\"", "o", "r", "d", "e", "r", ".", "p", "l", "a", "c", "e", "d", "\"", ")">>, TRUE),
      File(PathJoin(root, <<"s", "r", "c", "/", "u", "t", "i", "l", ".", "g", "o">>), <<"f", "m", "t", ".", "P", "r", "i", "n", "t", "l", "n", "(", "\"", "x", "\"", ")", ";", " ", "p", "u", "b", "l", "i", "s", "h", "(", "\"", "\"", ")">>, TRUE),
      File(PathJoin(root, <<"s", "r", "c", "/", "b", "a", "d", ".", "p", "y">>), <<>>, FALSE),
      File(PathJoin(root, <<"t", "e", "s", "t", "/", "a", ".", "t", "s">>), <<"p", "r", "o", "d", "u", "c", "e", " ", "(", "\"", "u", "s", "e", "r", ".", "c", "r", "e", "a", "t", "e", "d", "\"", ")">>, TRUE),
      File(PathJoin(root, <<"R", "E", "A", "D", "M", "E", ".", "m", "d">>), <<"p", "u", "b", "l", "i", "s", "h", "(", "\"", "d", "o", "c", "\"", ")">>, TRUE),
      File(PathJoin(root, <<"c", "o", "n", "t", "e", "s", "t", "/", "b", ".", "j", "a", "v", "a">>), <<"r", "e", "p", "u", "b", "l", "i", "s", "h", "(", "'", "x", "\"", ",", " ", "s", "e", "n", "d", "(", "y", ")">>, TRUE) }

\* What the repository path names.
Missing(path) == [ path |-> path, kind |-> "missing" ]
RegularFile(path) == [ path |-> path, kind |-> "file" ]
Directory(path) == [ path |-> path, kind |-> "dir" ]

\* An output path: none (None), or the given string.
NoOutputPath == [ given |-> FALSE, path |-> <<>> ]
OutputPath(path) == [ given |-> TRUE, path |-> path ]

\* The variant that takes every output path for given.
TruthyAlways(path) == TRUE

\* "if output_path:"
Truthy(path) == path.given /\ path.path # <<>>

\* The orders in which a directory walk may meet the files.
WalksOf(files) ==
    { w \in [1..Cardinality(files) -> files] : \A f \in files : \E i \in DOMAIN w : w[i] = f }

InitCli ==
    /\ \E root \in Roots :
         \/ /\ cli_entry = "cli"
            /\ pc = "validate"
            /\ \/ /\ repository_path \in { Missing(root), RegularFile(root) }
                  /\ tree = {}
               \/ /\ repository_path = Directory(root)
                  /\ tree \in SubsetsUpTo(SampleFiles(root), MaxFiles)
            /\ discover_only \in BOOLEAN
            /\ output_path \in { OutputPath(S_asyncapi_yaml), OutputPath(S_out_spec_yaml) }
         \/ /\ cli_entry = "run"
            /\ pc = "discover"
            /\ repository_path = Directory(root)
            /\ tree \in SubsetsUpTo(SampleFiles(root), MaxFiles)
            /\ discover_only = FALSE
            /\ output_path \in { NoOutputPath, OutputPath(<<>>), OutputPath(S_out_spec_yaml) }
    /\ scanned = <<>>
    /\ scan_result = NoProducers
    /\ spec_text = <<>>
    /\ files_written = EmptyDict
    /\ cli_exit = NotExited
    /\ IdleDedup
    /\ IdleExtract
    /\ IdleDetect
    /\ IdleGen
    /\ IdleMain
    /\ IdleSave
    /\ IdleCatalog
    /\ IdleRepeat

\* The variant that exits on a path that does not exist only.
CliValidateExistsOnly ==
    /\ pc = "validate"
    /\ IF repository_path.kind # "missing"
       THEN /\ pc' = "discover"
            /\ cli_exit' = cli_exit
       ELSE /\ pc' = "exited"
            /\ cli_exit' = Exited(1)
    /\ UNCHANGED <<dedupVars, repeatVars, extractVars, detectVars, genVars, mainVars, saveVars,
                   catalogVars, cli_entry, repository_path, tree, output_path, discover_only,
                   scanned, scan_result, spec_text, files_written>>

\* main of cli.py up to the try block: sys.exit(1) on a path that does not
\* exist or is no directory.
CliValidate ==
    /\ pc = "validate"
    /\ IF repository_path.kind = "dir"
       THEN /\ pc' = "discover"
            /\ cli_exit' = cli_exit
       ELSE /\ pc' = "exited"
            /\ cli_exit' = Exited(1)
    /\ UNCHANGED <<dedupVars, repeatVars, extractVars, detectVars, genVars, mainVars, saveVars,
                   catalogVars, cli_entry, repository_path, tree, output_path, discover_only,
                   scanned, scan_result, spec_text, files_written>>

\* AsyncAPIDiscovery.discover: scanner.scan(), the directory walk meeting
\* the files in some order.
Discover ==
    /\ pc = "discover"
    /\ \E walk \in WalksOf(tree) :
          LET result == Scan(walk)
          IN  /\ scanned' = result.visited
              /\ scan_result' = result.producers
    /\ pc' = IF discover_only THEN "finished" ELSE "generate"
    /\ UNCHANGED <<dedupVars, repeatVars, extractVars, detectVars, genVars, mainVars, saveVars,
                   catalogVars, cli_entry, repository_path, tree, output_path, discover_only,
                   spec_text, files_written, cli_exit>>

\* AsyncAPIDiscovery.generate_spec(producers) within run
RunGenerateSpec ==
    /\ pc = "generate"
    /\ spec_text' = Generate(scan_result)
    /\ pc' = "write"
    /\ UNCHANGED <<dedupVars, repeatVars, extractVars, detectVars, genVars, mainVars, saveVars,
                   catalogVars, cli_entry, repository_path, tree, output_path, discover_only,
                   scanned, scan_result, files_written, cli_exit>>

\* The end of run: Path(output_path).write_text(spec) when an output path
\* is given, which writes the text, or raises with no file made (open
\* failed) or with an empty file left (the write failed); then the return.
RunWriteText ==
    /\ pc = "write"
    /\ IF Truthy(output_path)
       THEN \/ /\ files_written' = Put(files_written, output_path.path, spec_text)
               /\ pc' = "returned"
            \/ /\ files_written' = files_written
               /\ pc' = "raised"
            \/ /\ files_written' = Put(files_written, output_path.path, <<>>)
               /\ pc' = "raised"
       ELSE /\ files_written' = files_written
            /\ pc' = "returned"
    /\ UNCHANGED <<dedupVars, repeatVars, extractVars, detectVars, genVars, mainVars, saveVars,
                   catalogVars, cli_entry, repository_path, tree, output_path, discover_only,
                   scanned, scan_result, spec_text, cli_exit>>

\* The end of main of cli.py: sys.exit(1) in the except clause, else the
\* interpreter exits with 0.
CliExit ==
    /\ cli_entry = "cli"
    /\ pc \in { "finished", "returned", "raised" }
    /\ cli_exit' = Exited(IF pc = "raised" THEN 1 ELSE 0)
    /\ pc' = "exited"
    /\ UNCHANGED <<dedupVars, repeatVars, extractVars, detectVars, genVars, mainVars, saveVars,
                   catalogVars, cli_entry, repository_path, tree, output_path, discover_only,
                   scanned, scan_result, spec_text, files_written>>

NextCli == CliValidate \/ Discover \/ RunGenerateSpec \/ RunWriteText \/ CliExit

SpecCli == InitCli /\ [][NextCli]_vars

-----------------------------------------------------------------------------
(* The command line, run and the scanner checked. *)

\* The steps at which the scan of the repository has been made.
AfterDiscover == { "finished", "generate", "write", "returned", "raised" }
Discovered == pc \in AfterDiscover \/ (pc = "exited" /\ repository_path.kind = "dir")

\* C15: the command line exits with 1, with no scan made and no file
\* written, when the repository path does not exist or is no directory; it
\* exits with 1 when the run raised, which leaves the output file missing
\* or without the document; and it exits with 0 otherwise, after the
\* discovery alone (--discover-only) or with the document in the output file.
C15_ExitCodeTellsSuccess ==
    /\ repository_path.kind # "dir" =>
          /\ scanned = <<>> /\ scan_result = NoProducers
          /\ spec_text = <<>> /\ files_written = EmptyDict
    /\ pc = "exited" =>
          /\ cli_exit \in { Exited(0), Exited(1) }
          /\ cli_exit = Exited(0) <=>
                /\ repository_path.kind = "dir"
                /\ \/ discover_only /\ files_written = EmptyDict
                   \/ /\ ~discover_only
                      /\ spec_text = Generate(scan_result)
                      /\ files_written = Put(EmptyDict, output_path.path, spec_text)

\* The command line has exited with 1 on a repository path that names a
\* regular file.
C15_Witness ==
    /\ pc = "exited"
    /\ repository_path.kind = "file"
    /\ cli_exit = Exited(1)

\* The command line has exited with 1 after write_text raised, and with 0
\* after a run that wrote the document of a scan with events.
C15_WitnessRaised ==
    /\ pc = "exited" /\ repository_path.kind = "dir" /\ ~discover_only
    /\ files_written = EmptyDict /\ cli_exit = Exited(1)
C15_WitnessSuccess ==
    /\ pc = "exited" /\ cli_exit = Exited(0) /\ scan_result.events # <<>>
    /\ files_written = Put(EmptyDict, S_asyncapi_yaml, spec_text)

\* C16: when run has returned, the text it returns is the document
\* generated from the producers found; with an output path given (a
\* non-empty one) the file at that path, and no other, holds exactly that
\* text, and otherwise no file has been written.
C16_RunWritesWhatItReturns ==
    pc = "returned" =>
        /\ spec_text = Generate(scan_result)
        /\ IF output_path.given /\ output_path.path # <<>>
           THEN files_written = Put(EmptyDict, output_path.path, spec_text)
           ELSE files_written = EmptyDict

\* run called with an output path on a directory with events.
C16_Witness ==
    /\ pc = "returned" /\ cli_entry = "run"
    /\ output_path = OutputPath(S_out_spec_yaml)
    /\ scan_result.events # <<>>
    /\ files_written[S_out_spec_yaml] = spec_text

\* run called without an output path.
C16_WitnessNoPath ==
    /\ pc = "returned" /\ cli_entry = "run" /\ output_path = NoOutputPath
    /\ scan_result.events # <<>> /\ files_written = EmptyDict

\* The directory segments of the statement.
SkipSegments ==
    { <<"/", "t", "e", "s", "t", "/">>, <<"/", "t", "e", "s", "t", "s", "/">>, <<"/", "_", "_", "p", "y", "c", "a", "c", "h", "e", "_", "_", "/">>, <<"/", "n", "o", "d", "e", "_", "m", "o", "d", "u", "l", "e", "s", "/">>,
      <<"/", "v", "e", "n", "v", "/">>, <<"/", ".", "g", "i", "t", "/">>, <<"/", "d", "i", "s", "t", "/">>, <<"/", "b", "u", "i", "l", "d", "/">> }
HasSkipSegment(path) == \E segment \in SkipSegments : Contains(path, segment)
HasSupportedExtension(path) ==
    \E e \in { <<".", "p", "y">>, <<".", "j", "s">>, <<".", "t", "s">>, <<".", "j", "a", "v", "a">>, <<".", "g", "o">> } : EndsWith(path, e)
Elements(s) == { s[i] : i \in DOMAIN s }

\* C17: after a scan, a file with a supported extension has been handed to
\* _scan_file exactly if its path contains none of the eight segments, and
\* no event and no entry of files comes from a file whose path contains one.
C17_SkipsExactlyTheSegments ==
    Discovered =>
        /\ \A f \in tree : HasSupportedExtension(f.path) =>
              (f.path \in Elements(scanned) <=> ~HasSkipSegment(f.path))
        /\ \A i \in DOMAIN scan_result.events : ~HasSkipSegment(scan_result.events[i].file)
        /\ \A i \in DOMAIN scan_result.files : ~HasSkipSegment(scan_result.files[i])

\* A producer file under src was scanned and one under tests was skipped.
C17_Witness ==
    /\ Discovered
    /\ \E f, g \in tree :
          /\ f.path = <<"r", "e", "p", "o", "/", "s", "r", "c", "/", "p", "r", "o", "d", "u", "c", "e", "r", ".", "p", "y">> /\ g.path = <<"r", "e", "p", "o", "/", "t", "e", "s", "t", "s", "/", "t", "e", "s", "t", "_", "p", ".", "p", "y">>
          /\ scanned = << f.path >>
          /\ scan_result.files = << f.path >>

\* Below the current directory the path of a file of the top-level
\* directory test is "test/a.ts", which contains no segment: it is scanned.
C17_WitnessTopLevel ==
    /\ Discovered
    /\ scan_result.files = << <<"t", "e", "s", "t", "/", "a", ".", "t", "s">> >>

\* C18: in the result of a scan, producers_found is the number of event
\* records; files lists, each once, the scanned files that events come
\* from, and so the file of every event; and for a directory without
\* files of a supported extension both counts are 0 and events is empty.
C18_StatisticsMatchEvents ==
    Discovered =>
        LET events_ == scan_result.events
            files == scan_result.files
        IN  /\ scan_result.statistics.producers_found = Len(events_)
            /\ Elements(files) = { events_[i].file : i \in DOMAIN events_ }
            /\ Elements(files) \subseteq Elements(scanned)
            /\ \A i, j \in DOMAIN files : files[i] = files[j] => i = j
            /\ (\A f \in tree : ~HasSupportedExtension(f.path)) =>
                  /\ scan_result.statistics.total_files_scanned = 0
                  /\ scan_result.statistics.producers_found = 0
                  /\ events_ = <<>>

\* An unreadable file and a file with two events were scanned: one entry
\* in files, two events (the one of the send pattern first), two files
\* counted.
C18_Witness ==
    /\ Discovered
    /\ scanned = << <<"r", "e", "p", "o", "/", "s", "r", "c", "/", "b", "a", "d", ".", "p", "y">>, <<"r", "e", "p", "o", "/", "s", "r", "c", "/", "a", "p", "p", ".", "j", "s">> >>
    /\ scan_result.files = << <<"r", "e", "p", "o", "/", "s", "r", "c", "/", "a", "p", "p", ".", "j", "s">> >>
    /\ scan_result.statistics = [ total_files_scanned |-> 2, producers_found |-> 2 ]
    /\ scan_result.events[1].name = S_order_placed
    /\ scan_result.events[2].name = <<"a">>

\* A directory holding only a README: nothing counted.
C18_WitnessEmpty ==
    /\ Discovered
    /\ Cardinality(tree) = 1
    /\ scan_result = NoProducers
    /\ \A f \in tree : ~HasSupportedExtension(f.path)

-----------------------------------------------------------------------------
(* The catalog index. *)

\* C19: the index CatalogManager.save has written records a total equal to
\* the number of its summary records, and has one summary record for each
\* specification of the catalog, in their order, naming its repository and
\* counting its channels; no repository has two records.
C19_IndexSummarizesEveryDocument ==
    S_catalog_index_json \in DOMAIN disk =>
        LET index == disk[S_catalog_index_json].document
            records == index.specifications
        IN  /\ index.total_specifications = Len(records)
            /\ Len(records) = Len(specifications)
            /\ \A i \in 1..Len(records) :
                  /\ records[i].repository = specifications[i].repo
                  /\ records[i].channels = Cardinality(DOMAIN specifications[i].spec.channels)
            /\ \A i, j \in 1..Len(records) :
                  records[i].repository = records[j].repository => i = j

\* The index of a catalog of two documents, one with two channels and one
\* with one channel, written after a third of the files of the documents
\* could not be written.
C19_Witness ==
    /\ S_catalog_index_json \in DOMAIN disk
    /\ Len(repositories) = 2
    /\ disk[S_catalog_index_json].document.total_specifications = 2
    /\ { disk[S_catalog_index_json].document.specifications[i].channels : i \in 1..2 } = {1, 2}
    /\ write_errors # {}

\* The index of a run that scanned two repositories and found events in one.
C19_WitnessOneOfTwo ==
    /\ S_catalog_index_json \in DOMAIN disk
    /\ Len(repositories) = 2
    /\ disk[S_catalog_index_json].document.total_specifications = 1

\* C19 for save_catalog of the package's CatalogManager: the index has one
\* record per entry of the list handed to save_catalog, in order, with the
\* entry's service name and channel count, and totalServices counts them.
C19_PackageIndexSummarizesEveryDocument ==
    S_catalog_index \in DOMAIN disk =>
        LET index == disk[S_catalog_index].document
        IN  /\ index.totalServices = Len(index.services)
            /\ Len(index.services) = Len(specs)
            /\ \A i \in 1..Len(specs) :
                  /\ index.services[i].name = specs[i].service
                  /\ index.services[i].channelCount = Cardinality(DOMAIN specs[i].spec.channels)

-----------------------------------------------------------------------------
(* The file names of the documents. *)

\* The characters the statement allows in a file name.
FileNameChars ==
    { LowerCase[i] : i \in 1..Len(LowerCase) } \cup { Digits[i] : i \in 1..Len(Digits) }
        \cup { "_", "-" }

\* A path without its directory and without its extension (.json, .yaml).
Stem(path) ==
    LET slashes == { i \in 1..Len(path) : path[i] = "/" }
        start == IF slashes = {} THEN 1
                 ELSE (CHOOSE i \in slashes : \A j \in slashes : j <= i) + 1
    IN  SubSeq(path, start, Len(path) - Len(S_json))

Sanitized(path) == \A i \in DOMAIN Stem(path) : Stem(path)[i] \in FileNameChars

\* C20 (the statement, which the code does not meet): the name of every
\* document file CatalogManager.save has written, without its extension,
\* holds lower-case letters, digits, '_' and '-' only.
C20_AsClaimed ==
    \A path \in DOMAIN disk \ { S_catalog_index_json } : Sanitized(path)

\* The document of the repository "github.com/Org/Shop" is written to
\* "github.com_Org_Shop.json" and "github.com_Org_Shop.yaml".
C20_FailingInput ==
    /\ arg_repository = << S_repo_host >>
    /\ DOMAIN disk = { <<"g", "i", "t", "h", "u", "b", ".", "c", "o", "m", "_", "O", "r", "g", "_", "S", "h", "o", "p", ".", "j", "s", "o", "n">>, <<"g", "i", "t", "h", "u", "b", ".", "c", "o", "m", "_", "O", "r", "g", "_", "S", "h", "o", "p", ".", "y", "a", "m", "l">>,
                       S_catalog_index_json }
    /\ exit_code = Exited(0)

\* C20 for save_catalog of the package's CatalogManager, whose
\* _sanitize_filename the statement describes: the names of the document
\* files hold lower-case letters, digits, '_' and '-' only.
C20_PackageNamesSanitized ==
    \A path \in DOMAIN disk \ { S_catalog_index } : Sanitized(path)

-----------------------------------------------------------------------------
(* The sections of the document of generate_spec. *)

\* The closed broker-to-protocol mapping of the statement.
ProtocolMap ==
    (S_kafka :> "kafka") @@ (S_rabbitmq :> "amqp") @@ (S_aws_sns :> "sns")
        @@ (S_aws_sqs :> "sqs") @@ (S_aws_eventbridge :> "eventbridge") @@ (S_ibm_mq :> "ibmmq")

ProtocolOf(broker) == IF broker \in DOMAIN ProtocolMap THEN ProtocolMap[broker] ELSE "unknown"

\* The brokers occurring in a list of events.
BrokersOf(evs) == { Get(evs[i], "broker", S_unknown) : i \in 1..Len(evs) }

ServersAsMapped(doc, evs) ==
    /\ DOMAIN doc.servers = BrokersOf(evs)
    /\ \A b \in DOMAIN doc.servers : doc.servers[b].protocol = ProtocolOf(b)

\* C21 (the statement, which the code does not meet on every event list):
\* generate_spec returns a document whose servers are keyed by the brokers
\* occurring in the events, one entry per broker, each with the protocol
\* the closed mapping gives the broker, "unknown" outside the mapping.
C21_AsClaimed ==
    pc \in AfterGenerateSpec =>
        /\ ~spec_doc.raised
        /\ ServersAsMapped(spec_doc.spec, events)

\* The kafka record of the detection scenario, which has no channel_name:
\* generate_spec raises and no server entry is emitted.
C21_FailingInput ==
    /\ pc = "generated"
    /\ events = << Rec_payment_processed >>
    /\ BrokersOf(events) = { S_kafka }
    /\ spec_doc.raised

\* C21, the part the code meets: every document generate_spec returns has
\* its servers as the statement says.
C21_ServersOfEveryDocument ==
    (pc \in AfterGenerateSpec /\ ~spec_doc.raised) => ServersAsMapped(spec_doc.spec, events)

\* The (channel id, action) pairs occurring in a list of events.
ChannelActions(evs) ==
    { << SanitizeChannelId(Get(evs[i], "channel_name", S_unknown)),
         Get(evs[i], "operation", S_send) >> : i \in 1..Len(evs) }

\* The (channel reference, action) pairs of the operations of a document.
OperationPairs(doc) ==
    { << doc.operations[o].channel.ref, doc.operations[o].action >> : o \in DOMAIN doc.operations }

\* C22 (the statement, which the code does not meet): a document
\* generate_spec returns has one operation per (channel, action) pair
\* occurring in the events, with that action and a reference to that
\* channel.
C22_AsClaimed ==
    (pc \in AfterGenerateSpec /\ ~spec_doc.raised) =>
        /\ OperationPairs(spec_doc.spec)
             = { << S_ref_channels \o ca[1], ca[2] >> : ca \in ChannelActions(events) }
        /\ Cardinality(DOMAIN spec_doc.spec.operations) = Cardinality(ChannelActions(events))

\* A send and a receive event of the channel "orders.created": the
\* document has the one operation "send_orders_created", with action send
\* and both messages.
C22_FailingInput ==
    /\ pc = "generated"
    /\ events = << Ev_created, Ev_audit >>
    /\ ~spec_doc.raised
    /\ DOMAIN spec_doc.spec.operations = { <<"s", "e", "n", "d", "_", "o", "r", "d", "e", "r", "s", "_", "c", "r", "e", "a", "t", "e", "d">> }
    /\ spec_doc.spec.operations[<<"s", "e", "n", "d", "_", "o", "r", "d", "e", "r", "s", "_", "c", "r", "e", "a", "t", "e", "d">>].action = S_send
    /\ Len(spec_doc.spec.operations[<<"s", "e", "n", "d", "_", "o", "r", "d", "e", "r", "s", "_", "c", "r", "e", "a", "t", "e", "d">>].messages) = 2

\* C23 (the statement, which the code does not meet): a document
\* generate_spec returns has as many message components, and as many
\* schema components, as the list has events, and the payload reference of
\* every message component names a schema component of the document.
C23_AsClaimed ==
    (pc \in AfterGenerateSpec /\ ~spec_doc.raised) =>
        LET components == spec_doc.spec.components
        IN  /\ Cardinality(DOMAIN components.messages) = Len(events)
            /\ Cardinality(DOMAIN components.schemas) = Len(events)
            /\ \A m \in DOMAIN components.messages :
                  \E s \in DOMAIN components.schemas :
                      components.messages[m].payload.ref = S_ref_schemas \o s

\* Two equal records of the channel "orders.created" and a record of the
\* channel "orders_created", which has the same channel id: the three
\* events get the one message component "orders_created_message_0".
C23_FailingInput ==
    /\ pc = "generated"
    /\ events = << Ev_created, Ev_created, Ev_collide >>
    /\ ~spec_doc.raised
    /\ DOMAIN spec_doc.spec.components.messages = { MessageId(S_orders_created_id, 0) }
    /\ Cardinality(DOMAIN spec_doc.spec.components.schemas) = 1

\* The references of a document: the messages a channel lists, the channel
\* and the messages an operation names.
ChannelMessagesResolve(doc) ==
    \A c \in DOMAIN doc.channels : \A id \in DOMAIN doc.channels[c].messages :
        \E m \in DOMAIN doc.components.messages :
            doc.channels[c].messages[id].ref = S_ref_messages \o m

PayloadsResolve(doc) ==
    \A m \in DOMAIN doc.components.messages :
        \E s \in DOMAIN doc.components.schemas :
            doc.components.messages[m].payload.ref = S_ref_schemas \o s

OperationsResolve(doc) ==
    \A o \in DOMAIN doc.operations :
        \E c \in DOMAIN doc.channels :
            /\ doc.operations[o].channel.ref = S_ref_channels \o c
            /\ \A k \in DOMAIN doc.operations[o].messages :
                  \E id \in DOMAIN doc.channels[c].messages :
                      doc.operations[o].messages[k].ref
                          = S_ref_channels \o c \o S_ref_channel_messages \o id

\* C28 (the statement, which the code does not meet): in a document
\* generate_spec returns, every message a channel lists is a message
\* component, every payload reference names a schema component, every
\* operation names a channel of the document and messages that channel
\* lists.
C28_AsClaimed ==
    (pc \in AfterGenerateSpec /\ ~spec_doc.raised) =>
        /\ ChannelMessagesResolve(spec_doc.spec)
        /\ PayloadsResolve(spec_doc.spec)
        /\ OperationsResolve(spec_doc.spec)

\* Two equal records: the channel lists "orders_created_message_0" and
\* "orders_created_message_1", and the second is no message component.
C28_FailingInput ==
    /\ pc = "generated"
    /\ events = << Ev_created, Ev_created >>
    /\ ~spec_doc.raised
    /\ DOMAIN spec_doc.spec.channels[S_orders_created_id].messages
         = { MessageId(S_orders_created_id, 0), MessageId(S_orders_created_id, 1) }
    /\ DOMAIN spec_doc.spec.components.messages = { MessageId(S_orders_created_id, 0) }

\* Two channel names of one channel id: the operation names two messages
\* of the channel, which lists the one of its last group only.
C28_FailingInputCollision ==
    /\ pc = "generated"
    /\ events = << Ev_created, Ev_collide >>
    /\ ~spec_doc.raised
    /\ ~OperationsResolve(spec_doc.spec)
    /\ ChannelMessagesResolve(spec_doc.spec)

\* C28, the part the code meets: payload references and the channel
\* references of operations always resolve.
C28_PayloadsAndChannelsResolve ==
    (pc \in AfterGenerateSpec /\ ~spec_doc.raised) =>
        /\ PayloadsResolve(spec_doc.spec)
        /\ \A o \in DOMAIN spec_doc.spec.operations :
              \E c \in DOMAIN spec_doc.spec.channels :
                  spec_doc.spec.operations[o].channel.ref = S_ref_channels \o c

-----------------------------------------------------------------------------
(* Matches without matched lines, the queries of a scan and the lines of
   the records. *)

\* The accessor that answers as the corpus does, with the matches without
\* matched lines taken out of every answer.
WithoutLineless ==
    [ i \in Searches |->
        Returned(SelectSeq(corpus[i].results, LAMBDA m : ~Lineless(m))) ]

\* C24: detect does not raise on matches without matched lines and returns
\* the records it returns when those matches are taken out of the answers:
\* such a match gives no record, under no name, and the other matches give
\* theirs.
C24_LinelessMatchesDiscarded ==
    pc = "done" =>
        /\ ~detected.raised
        /\ detected.events = DetectEvents(repo, WithoutLineless).events
        /\ \A k \in 1..Len(detected.events) : detected.events[k].lines # <<>>

\* An answer holds a match without the line list and one with an empty
\* list among others: the records of the matches after them are returned.
C24_Witness ==
    /\ pc = "done"
    /\ \E i \in Searches :
          /\ \E k \in DOMAIN corpus[i].results : corpus[i].results[k] = Match_no_lines
          /\ \E k \in DOMAIN corpus[i].results : corpus[i].results[k] = Match_empty_lines
          /\ \E k \in 1..Len(detected.events) :
                /\ detected.events[k].name = S_user_created
                /\ detected.events[k].broker = LibraryPairs[i].broker_type
          /\ \E k \in 1..Len(detected.events) :
                /\ detected.events[k].name = LibraryPairs[i].broker_type \o S_event_suffix
                /\ detected.events[k].lines = <<7>>

\* The searches main has sent, in order.
SearchRequests == SelectSeq(requests, LAMBDA r : r.kind = "search")

\* C25 (the statement, which the code does not meet in every run): when
\* main has ended, the searches it sent are, for each repository it called
\* detect for, one per (broker, pattern) pair of the library, in library
\* order, scoped to that repository.
C25_AsClaimed ==
    pc = "exit" =>
        LET n == Len(LibraryPairs)
        IN  /\ Len(SearchRequests) % n = 0
            /\ \A k \in 1..Len(SearchRequests) :
                  /\ SearchRequests[k].search = ((k - 1) % n) + 1
                  /\ SearchRequests[k].repo = repositories[((k - 1) \div n) + 1]

\* The run on the repository "org/shop" in which the first rabbitmq search
\* is answered with a GraphQL error: the exception leaves detect_events
\* and the searches after it are never sent.
C25_FailingInput ==
    /\ pc = "exit"
    /\ exit_code = Exited(1)
    /\ arg_repository = << S_repo >>
    /\ Len(SearchRequests) = FirstSearchOf(S_rabbitmq)
    /\ Len(SearchRequests) < Len(LibraryPairs)
    /\ SearchRequests[Len(SearchRequests)].ending = "malformed"

\* C25 for a call of detect_events whose accessor answers every query: the
\* calls are the queries of the library pairs, in order, each with the
\* repository, and every record carries the tag of a query that returned
\* the match it is built from.
C25_QueriesOfEveryScan ==
    pc = "done" =>
        /\ detected.calls = [ i \in Searches |-> [ query |-> LibraryPairs[i].query, repo |-> repo ] ]
        /\ \A k \in 1..Len(detected.events) :
              \E ik \in MatchesOfScan :
                 /\ ~Misshapen(MatchAt(ik)) /\ ~Lineless(MatchAt(ik))
                 /\ BuiltFrom(detected.events[k], MatchAt(ik), BrokerAt(ik))

\* The lines and source_code of record e are those of match m, position
\* by position, with 0 and '' for a number or a text the match lacks.
LinesAligned(e, m) ==
    /\ Len(e.lines) = Len(m.lineMatches)
    /\ Len(e.source_code) = Len(m.lineMatches)
    /\ \A l \in 1..Len(m.lineMatches) :
          /\ e.lines[l] = Get(m.lineMatches[l], "lineNumber", 0)
          /\ e.source_code[l] = Get(m.lineMatches[l], "line", <<>>)

\* C26: every record detect returns comes from a match of a query of its
\* broker with as many matched lines as the record has lines and
\* source_code entries, source_code[i] being the text of the line whose
\* number is lines[i], in the order of the match.
C26_SourceCodeAlignedWithLines ==
    pc = "done" =>
        \A k \in 1..Len(detected.events) :
            /\ Len(detected.events[k].lines) = Len(detected.events[k].source_code)
            /\ \E ik \in MatchesOfScan :
                  /\ ~Misshapen(MatchAt(ik)) /\ ~Lineless(MatchAt(ik))
                  /\ BrokerAt(ik) = detected.events[k].broker
                  /\ detected.events[k].name = ExtractEventName(MatchAt(ik).lineMatches, BrokerAt(ik))
                  /\ LinesAligned(detected.events[k], MatchAt(ik))

\* A record of a match of two lines, and a record of a match whose line
\* has no text.
C26_Witness ==
    /\ pc = "done"
    /\ \E k \in 1..Len(detected.events) :
          /\ detected.events[k].lines = << 41, 42 >>
          /\ detected.events[k].source_code = << Line_no_literal, Line_user_created >>
    /\ \E k \in 1..Len(detected.events) :
          /\ detected.events[k].lines = << 7 >>
          /\ detected.events[k].source_code = << <<>> >>
-----------------------------------------------------------------------------
(* One EventDetector and one AsyncAPIGenerator called again and again:
   detect_events for one repository or another, generate_spec for one
   event list or another, in any order. *)

MaxCalls == 3       \* most calls made on the two objects

CallRepos == { S_repo, S_repo_audit }

\* A match as the accessor reports it for repository r.
MatchIn(match, r) == [ match EXCEPT !.repository = [name |-> r] ]

\* What the accessor may answer for repository r: one kafka hit, hits of
\* two brokers, and a search that fails after the first hit.
CallAccessors(r) ==
    { Accessor({1}, 1 :> << MatchIn(Match_kafka_send, r) >>),
      Accessor({1, 5}, (1 :> << MatchIn(Match_user_created, r), MatchIn(Match_kafka_send, r) >>)
                         @@ (5 :> << MatchIn(Match_basic_publish, r) >>)),
      [ Accessor({1}, 1 :> << MatchIn(Match_kafka_send, r) >>) EXCEPT ![3] = Raised ] }

\* The event lists generate_spec is called with, beside the list the last
\* detect_events returned.
CallEventLists ==
    { << Ev_created, Ev_audit >>, << Ev_collide >>, << Rec_order_placed, Rec_payment_processed >> }

\* detect_events appending to a list the detector keeps from call to call.
DetectCallAccumulating(kept, repository, accessor) ==
    LET outcome == DetectEvents(repository, accessor)
    IN  IF outcome.raised THEN outcome
        ELSE [ outcome EXCEPT !.events = DeduplicateEvents(kept \o outcome.events) ]

\* detector.detect_events(repository) on a detector whose last call
\* returned kept: "events = []" starts every call with a list of its own.
DetectCall(kept, repository, accessor) == DetectEvents(repository, accessor)

InitCalls ==
    /\ pc = "calling"
    /\ patterns = CompilePatterns
    /\ accessors \in { a \in [CallRepos -> UNION { CallAccessors(r) : r \in CallRepos }] :
                         \A r \in CallRepos : a[r] \in CallAccessors(r) }
    /\ history = <<>>
    /\ detected = NoOutcome
    /\ spec_doc = NoDocument
    /\ clock = 1
    /\ events = <<>>
    /\ unique_events = Unused
    /\ corpus = Unused /\ repo = Unused
    /\ permuted = Unused /\ spec_doc_permuted = Unused /\ yaml_doc = Unused /\ catalog_doc = Unused
    /\ detected_again = Unused
    /\ IdleExtract
    /\ IdleMain
    /\ IdleSave
    /\ IdleCatalog
    /\ IdleCli

\* events = detector.detect_events(r)
CallDetectEvents ==
    /\ pc = "calling"
    /\ Len(history) < MaxCalls
    /\ \E r \in CallRepos :
          LET outcome == DetectCall(detected.events, r, accessors[r])
          IN  /\ detected' = outcome
              /\ history' = Append(history, [ op |-> "detect", repo |-> r, outcome |-> outcome ])
    /\ UNCHANGED <<pc, patterns, accessors, detected_again, dedupVars, cliVars, extractVars, corpus, repo,
                   genVars, mainVars, saveVars, catalogVars>>

\* spec = generator.generate_spec(service_name, evs); events is the list
\* evs as the call leaves it.
CallGenerateSpecOn ==
    /\ pc = "calling"
    /\ Len(history) < MaxCalls
    /\ \E evs \in CallEventLists \cup { detected.events } :
          /\ evs # <<>>
          /\ \E repos \in RepositoryLists(evs) :
                LET outcome == GenerateSpec(S_service, evs, "1.0.0", clock, repos)
                IN  /\ spec_doc' = outcome
                    /\ history' = Append(history, [ op |-> "generate", events |-> evs, now |-> clock,
                                                    repos |-> repos, outcome |-> outcome ])
          /\ events' = evs
    /\ clock' = clock + 1
    /\ UNCHANGED <<pc, patterns, accessors, detected_again, unique_events, cliVars, extractVars, detectVars,
                   permuted, spec_doc_permuted, yaml_doc, catalog_doc, mainVars, saveVars, catalogVars>>

NextCalls == CallDetectEvents \/ CallGenerateSpecOn

SpecCalls == InitCalls /\ [][NextCalls]_vars

-----------------------------------------------------------------------------
(* The documents the index of a saved catalog names. *)

\* The files the index entry of the i-th document names hold that document.
HoldsOwnDocument(i) ==
    /\ YamlPath(specs[i].service) \in DOMAIN disk
    /\ JsonPath(specs[i].service) \in DOMAIN disk
    /\ disk[YamlPath(specs[i].service)] = YamlFile(specs[i].spec)
    /\ disk[JsonPath(specs[i].service)] = JsonFile(specs[i].spec)

\* Two documents of different services that are written to one file name.
SameFileName(i, j) ==
    /\ specs[i].service # specs[j].service
    /\ SanitizeFilename(specs[i].service) = SanitizeFilename(specs[j].service)

Saved == pc = "done" /\ ~save_raised

\* C29 (the statement, which the code does not meet): once save_catalog has
\* returned, the files every index entry names exist and hold the document
\* of the entry's own service, and no two different services are written to
\* the same file name.
C29_AsClaimed ==
    Saved =>
        /\ \A i \in 1..Len(specs) : HoldsOwnDocument(i)
        /\ \A i, j \in 1..Len(specs) : ~SameFileName(i, j)

\* "Order Service" and "order_service" are both written to
\* specs/order_service.yaml and .json: the files the entry of
\* "Order Service" names hold the document of "order_service".
C29_FailingInput ==
    /\ Saved
    /\ specs = << [service |-> S_Order_Service, spec |-> Doc_created],
                  [service |-> S_order_service_id, spec |-> Doc_collide] >>
    /\ YamlPath(S_Order_Service) = YamlPath(S_order_service_id)
    /\ disk[YamlPath(S_Order_Service)] = YamlFile(Doc_collide)
    /\ disk[JsonPath(S_Order_Service)] = JsonFile(Doc_collide)
    /\ DOMAIN disk = { YamlPath(S_Order_Service), JsonPath(S_Order_Service), S_catalog_index }

\* C29 for the lists whose services have file names of their own: every
\* entry's files hold the entry's document.
C29_DistinctNamesKeepTheirDocuments ==
    (Saved /\ \A i, j \in 1..Len(specs) :
                 i # j => SanitizeFilename(specs[i].service) # SanitizeFilename(specs[j].service))
        => \A i \in 1..Len(specs) : HoldsOwnDocument(i)
-----------------------------------------------------------------------------
(* The catalog after a run of main. *)

\* The scans of the run in which detect_events returned events.
ScansWithEvents ==
    { k \in 1..Len(history) : ~history[k].outcome.raised /\ history[k].outcome.events # <<>> }

CatalogRepos == { specifications[i].repo : i \in 1..Len(specifications) }

\* The last scan of a repository that returned events.
LastScanWithEvents(repository) ==
    LET scans == { k \in ScansWithEvents : history[k].repo = repository }
    IN  CHOOSE k \in scans : \A j \in scans : j <= k

DocumentFiles(repository) == { SafeName(repository) \o S_json, SafeName(repository) \o S_yaml }

\* save() has not begun: the loop over the repositories is not over.
BeforeSave == pc # "exit" /\ ~(pc = "process" /\ next_repo > Len(repositories))

\* C30: when main has returned 0, every repository of the list has been
\* scanned, in order; the catalog holds one specification for each
\* repository identifier of a scan that returned events, built from the
\* events of the last such scan, and none for any other repository; the
\* files written are document files of those repositories and the index,
\* whose entries are those repositories; and save() ran once, after the
\* loop: nothing is written while repositories remain, and its loop has
\* visited every document once.
C30_CatalogOfARun ==
    /\ exit_code = Exited(0) =>
          /\ Len(history) = Len(repositories)
          /\ \A k \in 1..Len(history) : history[k].repo = repositories[k]
          /\ CatalogRepos = { history[k].repo : k \in ScansWithEvents }
          /\ Len(specifications) = Cardinality(CatalogRepos)
          /\ \A i \in 1..Len(specifications) :
                specifications[i].spec =
                    CreateSpecification(specifications[i].repo,
                        history[LastScanWithEvents(specifications[i].repo)].outcome.events).spec
          /\ DOMAIN disk \subseteq
                UNION { DocumentFiles(r) : r \in CatalogRepos } \cup { S_catalog_index_json }
          /\ S_catalog_index_json \in DOMAIN disk =>
                /\ disk[S_catalog_index_json] = JsonFile(CatalogIndex(specifications))
                /\ { e.repository : e \in Elements(disk[S_catalog_index_json].document.specifications) }
                      = CatalogRepos
          /\ next_doc = Len(specifications) + 1
    /\ BeforeSave => disk = EmptyDict /\ write_errors = {} /\ next_doc = 1

\* The listing names one repository twice and both scans return events:
\* the catalog holds one specification and its two files and the index
\* are written.
C30_Witness ==
    /\ exit_code = Exited(0)
    /\ repositories = << S_repo, S_repo >>
    /\ ScansWithEvents = { 1, 2 }
    /\ Len(specifications) = 1
    /\ DOMAIN disk = DocumentFiles(S_repo) \cup { S_catalog_index_json }

\* One repository of the listing has events and the other has none: the
\* catalog and the index hold the first only.
C30_WitnessOneOfTwo ==
    /\ exit_code = Exited(0)
    /\ repositories = << S_repo, S_repo_audit >>
    /\ ScansWithEvents = { 1 }
    /\ CatalogRepos = { S_repo }
    /\ DOMAIN disk = DocumentFiles(S_repo) \cup { S_catalog_index_json }

=============================================================================
